---- MODULE Spec2Model ----
(***************************************************************************)
(* Platform synchronisation layer of the CP Journey tracker:               *)
(*   PlatformAPI (src/platformAPI.js)  fetchers, classifier, syncAll       *)
(*   the HTTP server (src/unnamed/part_002)  /api/sync/* and /api/journey  *)
(*   CPJourney and CSESManager (src/script.js)  manual problem counters    *)
(***************************************************************************)
EXTENDS Integers, Sequences, FiniteSets, TLC

VARIABLES
    problemId,       \* categorizeCSESProblem: the id string handed in
    classified,      \* categorizeCSESProblem: what it returned
    solvedProblems,  \* fetchCSESProgress: rows parsed from the profile page
    csesResult,      \* fetchCSESProgress: the object it resolved to
    body,            \* req.body of the sync request being handled
    results,         \* syncAllPlatforms: the results object
    promises,        \* syncAllPlatforms: state of each pushed promise
    fetched,         \* value each platform fetch resolved to
    pc,              \* position of the /api/sync/all handler
    response,        \* what the handler answered
    db,              \* the journey record in DB_FILE
    data,            \* CPJourney.data (client copy of the journey record)
    localStore,      \* localStorage 'cpJourneyData'
    notification,    \* CPJourney: the last notification shown
    categories,      \* CSESManager.categories[..].solved
    savedProgress,   \* localStorage 'cses-progress'
    message,         \* CSESManager: the last message shown
    remote,          \* what each remote URL answers to axios.get
    resolved,        \* what each fetcher called on its own resolved to
    today,           \* calendar day of new Date()
    clock,           \* instant of new Date()
    calls,           \* the async calls in flight: each one's position and locals
    users            \* the users array of users.json

classVars == <<problemId, classified>>
fetchVars == <<solvedProblems, csesResult, remote, resolved>>
syncVars == <<body, results, promises, fetched, pc, response>>
clientVars == <<data, localStore, notification>>
managerVars == <<categories, savedProgress, message>>
timeVars == <<today, clock>>
callVars == <<calls, users>>
vars == <<problemId, classified, solvedProblems, csesResult, remote, resolved, body, results,
          promises, fetched, pc, response, db, data, localStore, notification,
          categories, savedProgress, message, today, clock, calls, users>>

(***************************************************************************)
(* Bounds of the model.                                                    *)
(***************************************************************************)
MaxRepeat == 17
MaxPrefix == 1
MaxDay == 2
MaxSyncRows == 1

(***************************************************************************)
(* JavaScript values that a field may hold besides a count.                *)
(***************************************************************************)
Undefined == [t |-> "undefined"]
JSNull == [t |-> "null"]
Num(n) == [t |-> "number", v |-> n]
Str(s) == [t |-> "string", s |-> s]
Bool(b) == [t |-> "boolean", b |-> b]
Obj(m) == [t |-> "object", o |-> m]
\* The string Date.prototype.toDateString gives for calendar day d.
Day(d) == [t |-> "string", day |-> d]
None == [t |-> "none"]

CSESCats == <<"intro", "sort", "dp", "graph", "range", "tree">>
CatNames == {CSESCats[i] : i \in DOMAIN CSESCats}

(***************************************************************************)
(* The static id -> category table, in Object.entries order, each bucket   *)
(* with the entries (repeats included) the source lists.                   *)
(***************************************************************************)
getCSESCategories ==
    [intro |-> <<1068, 1083, 1069, 1094, 1070, 1071, 1072, 1617, 2165, 1618,
                 1754, 1755, 1624, 1092, 1622, 1623, 1073, 1619, 2431>>,
     sort |-> <<1621, 1084, 1090, 1091, 1619, 1629, 1640, 1643, 1074, 1621,
                1629, 1640, 1643, 2162, 2183, 2168, 1642, 1645, 1074, 1141,
                1076, 1630, 1631, 1641, 1662, 1085, 1097, 1645, 1620, 2216,
                2217, 2428, 1632, 1628, 1642>>,
     dp |-> <<1633, 1634, 1635, 1636, 1637, 1638, 1158, 1746, 2413, 1639,
              2181, 2220, 1653, 2442, 1097, 2181, 2220, 1644, 1097>>,
     graph |-> <<1666, 1667, 1668, 1669, 1670, 1671, 1672, 1673, 1674, 1675,
                 1676, 1677, 1678, 1679, 1680, 1681, 1682, 1683, 1684, 1685,
                 1686, 1687, 1688, 1689, 1690, 1691, 1692, 1693, 1694, 1695,
                 1696, 1697, 1698, 1699, 1700, 1701>>,
     range |-> <<1646, 1647, 1648, 1649, 1650, 1651, 1652, 1143, 1749, 2166,
                 2206, 2401, 2416, 1734, 1749, 1190, 2416, 2206, 2401>>,
     tree |-> <<1674, 1130, 1131, 1132, 1133, 1134, 1135, 1136, 1137, 1138,
                1139, 1702, 2079, 1703, 2134, 1704>>]

\* Array.prototype.includes
Includes(ids, id) == \E i \in DOMAIN ids : ids[i] = id

\* Number.parseInt on an id string: the leading decimal digits are read, what
\* follows them is dropped, and a string with no leading digit gives NaN.
NaN == [t |-> "NaN"]
RECURSIVE DigitsValue(_)
DigitsValue(ds) ==
    IF ds = <<>> THEN 0
    ELSE 10 * DigitsValue(SubSeq(ds, 1, Len(ds) - 1)) + ds[Len(ds)]
parseInt(s) == IF s.lead = <<>> THEN NaN ELSE Num(DigitsValue(s.lead))

\* for (const [category, ids] of Object.entries(categories)): first bucket
\* that includes the parsed id, else null.
RECURSIVE ScanEntries(_, _, _)
ScanEntries(id, table, i) ==
    IF i > Len(CSESCats) THEN JSNull
    ELSE IF id # NaN /\ Includes(table[CSESCats[i]], id.v) THEN Str(CSESCats[i])
    ELSE ScanEntries(id, table, i + 1)

categorizeCSESProblem(pid, table) == ScanEntries(parseInt(pid), table, 1)

\* Reading a property an object may lack.
Get(obj, f) == IF f \in DOMAIN obj THEN obj[f] ELSE Undefined

(***************************************************************************)
(* fetchCSESProgress                                                       *)
(***************************************************************************)
\* The categories literal the fetch starts from.
EmptyCategories ==
    [intro |-> [solved |-> 0, total |-> 19, problems |-> <<>>],
     sort |-> [solved |-> 0, total |-> 35, problems |-> <<>>],
     dp |-> [solved |-> 0, total |-> 19, problems |-> <<>>],
     graph |-> [solved |-> 0, total |-> 36, problems |-> <<>>],
     range |-> [solved |-> 0, total |-> 19, problems |-> <<>>],
     tree |-> [solved |-> 0, total |-> 16, problems |-> <<>>]]

\* Mutant: a row with no category is put into the first category.
CategorizeStepDefaultBucket(cats, problem) ==
    LET category == categorizeCSESProblem(problem.id, getCSESCategories)
        key == IF category = JSNull THEN CSESCats[1] ELSE category.s
    IN [cats EXCEPT ![key].solved = @ + 1,
                    ![key].problems = Append(@, problem)]

\* A step that counts a row only in the category that was counted first.
CategorizeStepFirstCategoryOnly(cats, problem) ==
    LET category == categorizeCSESProblem(problem.id, getCSESCategories)
    IN IF /\ category # JSNull /\ category.s \in DOMAIN cats
          /\ \A c \in DOMAIN cats : c # category.s => cats[c].solved = 0
       THEN [cats EXCEPT ![category.s].solved = @ + 1,
                         ![category.s].problems = Append(@, problem)]
       ELSE cats

\* One iteration of solvedProblems.forEach.
CategorizeStep(cats, problem) ==
    LET category == categorizeCSESProblem(problem.id, getCSESCategories)
    IN IF category # JSNull /\ category.s \in DOMAIN cats
       THEN [cats EXCEPT ![category.s].solved = @ + 1,
                         ![category.s].problems = Append(@, problem)]
       ELSE cats

RECURSIVE CategorizeAll(_, _)
CategorizeAll(rows, cats) ==
    IF rows = <<>> THEN cats
    ELSE CategorizeAll(Tail(rows), CategorizeStep(cats, Head(rows)))

\* ok: the profile page was fetched and parsed into rows; otherwise axios
\* threw (timeout, non-2xx) and the catch block built the failure object.
fetchCSESProgress(rows, ok, now) ==
    IF ok
    THEN [success |-> TRUE,
          totalSolved |-> Num(Len(rows)),
          categories |-> CategorizeAll(rows, EmptyCategories),
          lastUpdated |-> Num(now)]
    ELSE [success |-> FALSE, error |-> Str("request failed"), totalSolved |-> Num(0)]

(***************************************************************************)
(* Inputs.                                                                 *)
(***************************************************************************)
RECURSIVE Digits(_)
Digits(n) == IF n < 10 THEN <<n>> ELSE Append(Digits(n \div 10), n % 10)

IdString(n) == [lead |-> Digits(n), tail |-> ""]

TableIds == UNION {{getCSESCategories[c][i] : i \in DOMAIN getCSESCategories[c]} :
                      c \in CatNames}
AbsentIds == {1000, 2702, 9999}

ClassifyInputs ==
    {[lead |-> Digits(n), tail |-> t] : n \in TableIds \cup AbsentIds, t \in {"", "x"}}
        \cup {[lead |-> <<>>, tail |-> "abc"]}

\* A solved row: { name, id, solved: true }.
Row(id) == [name |-> "task", id |-> id, solved |-> TRUE]
RowIds == {IdString(1130), IdString(1674), IdString(1619), IdString(9999),
           [lead |-> <<>>, tail |-> "abc"]}
RECURSIVE Repeat(_, _)
Repeat(x, n) == IF n = 0 THEN <<>> ELSE <<x>> \o Repeat(x, n - 1)
RECURSIVE SeqsUpTo(_, _)
SeqsUpTo(S, n) ==
    IF n = 0 THEN {<<>>}
    ELSE SeqsUpTo(S, n - 1) \cup
         {Append(q, x) : q \in {r \in SeqsUpTo(S, n - 1) : Len(r) = n - 1}, x \in S}
RowInputs ==
    {p \o Repeat(Row(id), n) :
        p \in SeqsUpTo({Row(i) : i \in RowIds}, MaxPrefix),
        id \in RowIds, n \in 0..MaxRepeat}

(***************************************************************************)
(* JavaScript helpers.                                                     *)
(***************************************************************************)
Truthy(v) == v \notin {Undefined, JSNull, Str(""), Num(0), NaN, Bool(FALSE)}
TypeofObject(v) == v.t \in {"object", "null"}
\* obj[f] = v, adding the property when the object lacks it.
Put(obj, f, v) == [g \in DOMAIN obj \cup {f} |-> IF g = f THEN v ELSE obj[g]]
\* a || b
OrElse(a, b) == IF Truthy(a) THEN a ELSE b
\* JSON.stringify of a flat object: properties holding undefined are left out.
Json(obj) == [f \in {g \in DOMAIN obj : obj[g] # Undefined} |-> obj[f]]

Platforms == {"cses", "codeforces", "vjudge"}

(***************************************************************************)
(* fetchCodeforcesProgress and fetchVJudgeProgress: the object each        *)
(* resolves to, from what the two responses were parsed into.              *)
(***************************************************************************)
fetchCodeforcesProgress(username, parsed, ok, now) ==
    IF ok
    THEN [success |-> TRUE,
          username |-> username,
          rating |-> parsed.rating,
          maxRating |-> parsed.maxRating,
          problemsSolved |-> parsed.problemsSolved,
          contests |-> parsed.contests,
          dailySolves |-> parsed.dailySolves,
          lastUpdated |-> Num(now)]
    ELSE [success |-> FALSE,
          error |-> Str("request failed"),
          rating |-> Str("Error"),
          problemsSolved |-> Num(0),
          contests |-> Num(0)]

fetchVJudgeProgress(username, parsed, ok, now) ==
    IF ok
    THEN [success |-> TRUE,
          username |-> username,
          totalSolved |-> parsed.totalSolved,
          totalSubmitted |-> parsed.totalSubmitted,
          dailyActivity |-> parsed.dailyActivity,
          recentSolves |-> parsed.recentSolves,
          lastUpdated |-> Num(now)]
    ELSE [success |-> FALSE, error |-> Str("request failed"), totalSolved |-> Num(0)]

\* What the remote sites may answer during a sync.
SyncRowInputs == SeqsUpTo({Row(IdString(1130))}, MaxSyncRows)
CodeforcesParsed ==
    {[rating |-> Num(1500), maxRating |-> Num(1600), problemsSolved |-> Num(2),
      contests |-> Num(1), dailySolves |-> Obj(<<<<"1700A", "1700B">>>>)],
     [rating |-> Str("Unrated"), maxRating |-> Str("Unrated"), problemsSolved |-> Num(0),
      contests |-> Num(0), dailySolves |-> Obj(<<>>)]}
VJudgeParsed ==
    {[totalSolved |-> Num(5), totalSubmitted |-> Num(9),
      dailyActivity |-> Obj(<<3>>), recentSolves |-> Obj(<<<<"P1", "P2">>>>)]}

\* Every object a platform fetch can resolve to.
FetchOutcomes(p, username, now) ==
    CASE p = "cses" ->
            {fetchCSESProgress(rows, ok, now) : rows \in SyncRowInputs, ok \in BOOLEAN}
      [] p = "codeforces" ->
            {fetchCodeforcesProgress(username, parsed, ok, now) :
                parsed \in CodeforcesParsed, ok \in BOOLEAN}
      [] p = "vjudge" ->
            {fetchVJudgeProgress(username, parsed, ok, now) :
                parsed \in VJudgeParsed, ok \in BOOLEAN}

(***************************************************************************)
(* The journey record (DB_FILE) and the server's read and write of it.     *)
(***************************************************************************)
DefaultCses ==
    [intro |-> [solved |-> 0, total |-> 19],
     sort |-> [solved |-> 0, total |-> 35],
     dp |-> [solved |-> 0, total |-> 19],
     graph |-> [solved |-> 0, total |-> 36],
     range |-> [solved |-> 0, total |-> 19],
     tree |-> [solved |-> 0, total |-> 16]]

defaultData ==
    [journeyStarted |-> FALSE,
     startDate |-> JSNull,
     currentStreak |-> 0,
     bestStreak |-> 0,
     lastActiveDate |-> JSNull,
     cses |-> DefaultCses,
     usaco |-> [bronze |-> 0, silver |-> 0, gold |-> 0, platinum |-> 0],
     codeforces |-> [rating |-> Str("Unrated"), problemsSolved |-> Num(0),
                     contests |-> Num(0)],
     revision |-> [problems |-> 0],
     lastUpdated |-> Num(0),
     version |-> "1.0.0"]

\* data.lastUpdated = new Date().toISOString(); fs.writeJson(DB_FILE, data)
writeDatabase(file, journey, now, ioOk) ==
    IF ioOk THEN Put(journey, "lastUpdated", Num(now)) ELSE file

\* journeyData.platforms || {}
PlatformsOf(journey) ==
    IF "platforms" \in DOMAIN journey THEN journey.platforms ELSE <<>>

(***************************************************************************)
(* syncAllPlatforms                                                        *)
(***************************************************************************)
\* usernames.cses and the like: a property read throws on null and undefined.
Throws(v) == v \in {JSNull, Undefined}
PropertyOf(v, f) == IF v.t = "object" THEN Get(v.o, f) ELSE Undefined

\* const results = { cses: null, codeforces: null, vjudge: null, syncTime }
NewResults(now) ==
    [cses |-> JSNull, codeforces |-> JSNull, vjudge |-> JSNull, syncTime |-> Num(now)]

\* if (usernames.p) promises.push(...)
Pushed(usernames) ==
    [p \in Platforms |-> IF Truthy(PropertyOf(usernames, p)) THEN "pending" ELSE "none"]

\* Mutant: every callback stores into the same slot.
ThenAssignOneSlot(res, p, result) == [res EXCEPT !.cses = result]

\* .then(result => results.p = result)
\* An assignment that also clears what the earlier callbacks stored.
ThenAssignLastOnly(res, p, result) ==
    [q \in DOMAIN res |-> IF q = p THEN result
                          ELSE IF q \in Platforms THEN JSNull ELSE res[q]]
ThenAssign(res, p, result) == [res EXCEPT ![p] = result]

\* Mutant: the join ends with the first promise that settles.
AnySettled(ps) ==
    (\E p \in Platforms : ps[p] = "settled") \/ (\A p \in Platforms : ps[p] = "none")

\* await Promise.allSettled(promises)
AllSettled(ps) == \A p \in Platforms : ps[p] # "pending"

(***************************************************************************)
(* POST /api/sync/all                                                      *)
(***************************************************************************)
\* Mutant: null passes, since typeof null is 'object'.
RejectsBodyTypeofOnly(usernames) == ~TypeofObject(usernames)

\* if (!usernames || typeof usernames !== 'object') return res.status(400)
RejectsBody(usernames) == ~Truthy(usernames) \/ ~TypeofObject(usernames)

\* Mutant: the categories are copied whatever the outcome.
UpdateCsesUnguarded(journey, r) ==
    IF r # JSNull THEN [journey EXCEPT !.cses = Get(r, "categories")] ELSE journey

\* if (syncResults.cses && syncResults.cses.success) journeyData.cses = ...
UpdateCses(journey, r) ==
    IF r # JSNull /\ r.success THEN [journey EXCEPT !.cses = r.categories] ELSE journey

\* Mutant: the solved count of the result is added to the stored one.
UpdateCodeforcesAccumulating(journey, r) ==
    IF r # JSNull /\ r.success
    THEN [journey EXCEPT !.codeforces.rating = r.rating,
                         !.codeforces.problemsSolved =
                             Num(@.v + r.problemsSolved.v),
                         !.codeforces.contests = r.contests]
    ELSE journey

UpdateCodeforces(journey, r) ==
    IF r # JSNull /\ r.success
    THEN [journey EXCEPT !.codeforces.rating = r.rating,
                         !.codeforces.problemsSolved = r.problemsSolved,
                         !.codeforces.contests = r.contests]
    ELSE journey

\* The three objects stored under journeyData.platforms, as they are written.
AllCsesEntry(usernames, r) ==
    Json([username |-> PropertyOf(usernames, "cses"),
          lastSync |-> Get(r, "lastUpdated"),
          success |-> Bool(r.success),
          error |-> OrElse(Get(r, "error"), JSNull)])

AllCodeforcesEntry(usernames, r) ==
    Json([username |-> PropertyOf(usernames, "codeforces"),
          lastSync |-> Get(r, "lastUpdated"),
          success |-> Bool(r.success),
          error |-> OrElse(Get(r, "error"), JSNull),
          maxRating |-> Get(r, "maxRating"),
          dailySolves |-> Get(r, "dailySolves")])

AllVJudgeEntry(usernames, r) ==
    Json([username |-> PropertyOf(usernames, "vjudge"),
          lastSync |-> Get(r, "lastUpdated"),
          success |-> Bool(r.success),
          error |-> OrElse(Get(r, "error"), JSNull),
          totalSolved |-> Get(r, "totalSolved"),
          dailyActivity |-> Get(r, "dailyActivity")])

StorePlatforms(journey, usernames, res) ==
    LET p0 == PlatformsOf(journey)
        p1 == IF res.cses # JSNull
              THEN Put(p0, "cses", AllCsesEntry(usernames, res.cses)) ELSE p0
        p2 == IF res.codeforces # JSNull
              THEN Put(p1, "codeforces", AllCodeforcesEntry(usernames, res.codeforces))
              ELSE p1
        p3 == IF res.vjudge # JSNull
              THEN Put(p2, "vjudge", AllVJudgeEntry(usernames, res.vjudge)) ELSE p2
    IN Put(journey, "platforms", p3)

\* The body of if (journeyData) { ... } up to the write.
MergeAll(journey, usernames, res) ==
    Put(StorePlatforms(UpdateCodeforces(UpdateCses(journey, res.cses), res.codeforces),
                       usernames, res),
        "lastAutoSync", res.syncTime)

(***************************************************************************)
(* POST /api/sync/cses, /api/sync/codeforces, /api/sync/vjudge: what each  *)
(* writes into the journey record when its fetch succeeded.                *)
(***************************************************************************)
SyncCsesMerge(journey, username, csesData) ==
    Put([journey EXCEPT !.cses = csesData.categories],
        "platforms",
        Put(PlatformsOf(journey), "cses",
            Json([username |-> username,
                  lastSync |-> Get(csesData, "lastUpdated"),
                  totalSolved |-> Get(csesData, "totalSolved")])))

\* Mutant: the record written is built from the defaults.
SyncCodeforcesMergeFromDefaults(journey, username, cfData) ==
    Put([defaultData EXCEPT !.codeforces.rating = cfData.rating,
                            !.codeforces.problemsSolved = cfData.problemsSolved,
                            !.codeforces.contests = cfData.contests],
        "platforms",
        Put(PlatformsOf(journey), "codeforces",
            Json([username |-> username,
                  lastSync |-> Get(cfData, "lastUpdated"),
                  maxRating |-> Get(cfData, "maxRating"),
                  dailySolves |-> Get(cfData, "dailySolves")])))

SyncCodeforcesMerge(journey, username, cfData) ==
    Put([journey EXCEPT !.codeforces.rating = cfData.rating,
                        !.codeforces.problemsSolved = cfData.problemsSolved,
                        !.codeforces.contests = cfData.contests],
        "platforms",
        Put(PlatformsOf(journey), "codeforces",
            Json([username |-> username,
                  lastSync |-> Get(cfData, "lastUpdated"),
                  maxRating |-> Get(cfData, "maxRating"),
                  dailySolves |-> Get(cfData, "dailySolves")])))

\* vjData.dailyActivity && vjData.dailyActivity[today] > 0
ActiveOn(dailyActivity, day) ==
    /\ Truthy(dailyActivity)
    /\ day \in DOMAIN dailyActivity.o
    /\ dailyActivity.o[day] > 0

SyncVJudgeMerge(journey, username, vjData, day) ==
    LET stored ==
            Put(journey, "platforms",
                Put(PlatformsOf(journey), "vjudge",
                    Json([username |-> username,
                          lastSync |-> Get(vjData, "lastUpdated"),
                          totalSolved |-> Get(vjData, "totalSolved"),
                          totalSubmitted |-> Get(vjData, "totalSubmitted"),
                          dailyActivity |-> Get(vjData, "dailyActivity"),
                          recentSolves |-> Get(vjData, "recentSolves")])))
    IN IF ActiveOn(Get(vjData, "dailyActivity"), day)
       THEN [stored EXCEPT !.lastActiveDate = Day(day)]
       ELSE stored

(***************************************************************************)
(* State after construction.                                               *)
(***************************************************************************)
NoPromises == [p \in Platforms |-> "none"]
NoFetched == [p \in Platforms |-> None]

InitServer ==
    /\ body = None
    /\ results = None
    /\ promises = NoPromises
    /\ fetched = NoFetched
    /\ pc = "idle"
    /\ response = None
    /\ db = defaultData

\* No fetcher has been called on its own and no URL has answered.
Fetchers == {"cses", "codeforces", "vjudge", "topics", "topicsEarlier"}
Urls == {"csesUser", "userInfo", "userStatus", "vjudgeUser", "vjudgeSubmissions",
         "problemset"}
NoneResolved == [f \in Fetchers |-> None]
NoAnswers == [u \in Urls |-> None]

InitRemote ==
    /\ remote = NoAnswers
    /\ resolved = NoneResolved

InitClock ==
    /\ today = 1
    /\ clock = 0

\* No call is in flight and users.json holds what initializeUsers wrote.
Callers == {"one", "other"}
NotCalled == [at |-> "idle"]

InitCalls ==
    /\ calls = [c \in Callers |-> NotCalled]
    /\ users = <<>>

InitIdle ==
    /\ problemId = None
    /\ classified = None
    /\ solvedProblems = <<>>
    /\ csesResult = None
    /\ InitRemote

(***************************************************************************)
(* Actions of the server.                                                  *)
(***************************************************************************)
\* Bodies a client may post to /api/sync/all.
UsernameValues == {Str(""), Str("u")}
AllBodies ==
    {Obj([cses |-> a, codeforces |-> b, vjudge |-> c]) :
        a \in UsernameValues, b \in UsernameValues, c \in UsernameValues}
        \cup {Undefined, JSNull, Str("u")}

\* POST /api/sync/all up to the await of syncAllPlatforms: the guard, then the
\* synchronous part of syncAllPlatforms (a throw there rejects the call and
\* the handler's catch answers 500).
SyncAllRequest(usernames) ==
    /\ pc = "idle"
    /\ body' = usernames
    /\ IF RejectsBody(usernames)
       THEN /\ response' = [status |-> 400, error |-> "Usernames object is required"]
            /\ UNCHANGED <<results, promises, fetched, pc>>
       ELSE IF Throws(usernames)
       THEN /\ response' = [status |-> 500, error |-> "TypeError"]
            /\ UNCHANGED <<results, promises, fetched, pc>>
       ELSE /\ results' = NewResults(clock)
            /\ promises' = Pushed(usernames)
            /\ fetched' = NoFetched
            /\ pc' = "all:fetching"
            /\ response' = None
    /\ UNCHANGED <<classVars, fetchVars, db, clientVars, managerVars, timeVars, callVars>>

\* One platform fetch resolves and its then-callback runs.
SyncAllFetchDone(p) ==
    /\ promises[p] = "pending"
    /\ \E out \in FetchOutcomes(p, PropertyOf(body, p), clock) :
          /\ fetched' = [fetched EXCEPT ![p] = out]
          /\ results' = ThenAssign(results, p, out)
    /\ promises' = [promises EXCEPT ![p] = "settled"]
    /\ UNCHANGED <<body, pc, response, classVars, fetchVars, db, clientVars,
                   managerVars, timeVars, callVars>>

\* Promise.allSettled resolves and syncAllPlatforms returns results.
SyncAllJoin ==
    /\ pc = "all:fetching"
    /\ AllSettled(promises)
    /\ pc' = "all:returned"
    /\ UNCHANGED <<body, results, promises, fetched, response, classVars, fetchVars,
                   db, clientVars, managerVars, timeVars, callVars>>

\* readDatabase, the merge, writeDatabase and res.json; the call's locals end.
SyncAllMerge ==
    /\ pc = "all:returned"
    /\ \E ioOk \in BOOLEAN :
          db' = writeDatabase(db, MergeAll(db, body, results), clock, ioOk)
    /\ response' = [status |-> 200, results |-> results]
    /\ pc' = "idle"
    /\ results' = None
    /\ promises' = NoPromises
    /\ fetched' = NoFetched
    /\ UNCHANGED <<body, classVars, fetchVars, clientVars, managerVars, timeVars, callVars>>

\* const { username } = req.body; if (!username) return res.status(400)
SyncOneRequest(p, username) ==
    /\ pc = "idle"
    /\ body' = Obj([username |-> username])
    /\ IF ~Truthy(username)
       THEN /\ response' = [status |-> 400, error |-> "Username is required"]
            /\ pc' = pc
       ELSE /\ response' = None
            /\ pc' = p
    /\ UNCHANGED <<results, promises, fetched, classVars, fetchVars, db, clientVars,
                   managerVars, timeVars, callVars>>

SyncCSESDone ==
    /\ pc = "cses"
    /\ \E csesData \in FetchOutcomes("cses", PropertyOf(body, "username"), clock),
          ioOk \in BOOLEAN :
          /\ db' = IF csesData.success
                   THEN writeDatabase(db,
                            SyncCsesMerge(db, PropertyOf(body, "username"), csesData),
                            clock, ioOk)
                   ELSE db
          /\ response' = [status |-> 200, data |-> csesData]
    /\ pc' = "idle"
    /\ UNCHANGED <<body, results, promises, fetched, classVars, fetchVars,
                   clientVars, managerVars, timeVars, callVars>>

SyncCodeforcesDone ==
    /\ pc = "codeforces"
    /\ \E cfData \in FetchOutcomes("codeforces", PropertyOf(body, "username"), clock),
          ioOk \in BOOLEAN :
          /\ db' = IF cfData.success
                   THEN writeDatabase(db,
                            SyncCodeforcesMerge(db, PropertyOf(body, "username"), cfData),
                            clock, ioOk)
                   ELSE db
          /\ response' = [status |-> 200, data |-> cfData]
    /\ pc' = "idle"
    /\ UNCHANGED <<body, results, promises, fetched, classVars, fetchVars,
                   clientVars, managerVars, timeVars, callVars>>

SyncVJudgeDone ==
    /\ pc = "vjudge"
    /\ \E vjData \in FetchOutcomes("vjudge", PropertyOf(body, "username"), clock),
          ioOk \in BOOLEAN :
          /\ db' = IF vjData.success
                   THEN writeDatabase(db,
                            SyncVJudgeMerge(db, PropertyOf(body, "username"), vjData, today),
                            clock, ioOk)
                   ELSE db
          /\ response' = [status |-> 200, data |-> vjData]
    /\ pc' = "idle"
    /\ UNCHANGED <<body, results, promises, fetched, classVars, fetchVars,
                   clientVars, managerVars, timeVars, callVars>>

(***************************************************************************)
(* CPJourney (the client): loadData, saveData, updateStreak, addCSESProblem *)
(***************************************************************************)
clientDefaultData ==
    [journeyStarted |-> FALSE,
     startDate |-> JSNull,
     startedBy |-> JSNull,
     currentStreak |-> 0,
     bestStreak |-> 0,
     lastActiveDate |-> JSNull,
     cses |-> DefaultCses,
     usaco |-> [bronze |-> 0, silver |-> 0, gold |-> 0, platinum |-> 0],
     codeforces |-> [rating |-> Str("Unrated"), problemsSolved |-> Num(0),
                     contests |-> Num(0)],
     revision |-> [problems |-> 0],
     iupc |-> [contests |-> 0, problemsSolved |-> 0],
     icpc |-> [gymProblems |-> 0, contests |-> 0]]

\* { ...defaultData, ...stored }
Spread(defaults, stored) ==
    [f \in DOMAIN defaults \cup DOMAIN stored |->
        IF f \in DOMAIN stored THEN stored[f] ELSE defaults[f]]

\* loadData: the database when it answers, else localStorage, else defaults.
loadData(file, saved, online) ==
    IF online THEN Spread(clientDefaultData, file)
    ELSE IF saved # None THEN Spread(clientDefaultData, saved)
    ELSE clientDefaultData

Max(a, b) == IF a >= b THEN a ELSE b

\* A streak update that stores the current streak as the best one.
updateStreakNoMax(d, day) ==
    LET lastActive == d.lastActiveDate
    IN IF Truthy(lastActive) /\ lastActive = Day(day)
       THEN d
       ELSE LET streak == IF Truthy(lastActive) /\ lastActive = Day(day - 1)
                          THEN d.currentStreak + 1 ELSE 1
            IN [d EXCEPT !.currentStreak = streak, !.lastActiveDate = Day(day),
                         !.bestStreak = streak]

\* updateStreak: the data after the call, and whether it reached saveData.
updateStreak(d, day) ==
    LET lastActive == d.lastActiveDate
        counted ==
            IF ~Truthy(lastActive) THEN [d EXCEPT !.currentStreak = 1]
            ELSE IF lastActive = Day(day - 1)
                 THEN [d EXCEPT !.currentStreak = @ + 1]
                 ELSE [d EXCEPT !.currentStreak = 1]
    IN IF Truthy(lastActive) /\ lastActive = Day(day)
       THEN d
       ELSE [counted EXCEPT !.lastActiveDate = Day(day),
                            !.bestStreak = Max(@, counted.currentStreak)]

\* Mutant: the counter is raised whatever it holds.
CanAddAlways(cses, category) == category \in DOMAIN cses

\* this.data.cses[category] && this.data.cses[category].solved < ....total
CanAdd(cses, category) ==
    category \in DOMAIN cses /\ cses[category].solved < cses[category].total

\* Categories the buttons of the model are pressed for.
AddCats == {"tree"}

\* addCSESProblem(category), with the POST /api/journey its saveData sends.
AddCSESProblem(category) ==
    /\ pc = "idle"
    /\ IF CanAdd(data.cses, category)
       THEN /\ data' = updateStreak([data EXCEPT !.cses[category].solved = @ + 1], today)
            /\ localStore' = data'
            /\ \E online \in BOOLEAN : db' = writeDatabase(db, data', clock, online)
            /\ notification' = [type |-> "success", category |-> category]
       ELSE /\ notification' = [type |-> "info", category |-> category]
            /\ UNCHANGED <<data, localStore, db>>
    /\ UNCHANGED <<classVars, fetchVars, syncVars, managerVars, timeVars, callVars>>

\* A reload of the page data (every sync method ends with it).
LoadData ==
    /\ pc = "idle"
    /\ \E online \in BOOLEAN : data' = loadData(db, localStore, online)
    /\ UNCHANGED <<localStore, notification, classVars, fetchVars, syncVars, db,
                   managerVars, timeVars, callVars>>

\* Midnight passes.
NextDay ==
    /\ today < MaxDay
    /\ today' = today + 1
    /\ UNCHANGED <<classVars, fetchVars, syncVars, db, clientVars, managerVars, clock,
                   callVars>>

(***************************************************************************)
(* CSESManager: addProblem and saveProgress                                *)
(***************************************************************************)
ManagerCategories ==
    [intro |-> [total |-> 19, solved |-> 0],
     sort |-> [total |-> 35, solved |-> 0],
     dp |-> [total |-> 19, solved |-> 0],
     graph |-> [total |-> 36, solved |-> 0],
     math |-> [total |-> 31, solved |-> 0],
     range |-> [total |-> 19, solved |-> 0],
     tree |-> [total |-> 16, solved |-> 0],
     geometry |-> [total |-> 7, solved |-> 0],
     string |-> [total |-> 17, solved |-> 0]]

saveProgress(cats) == [c \in DOMAIN cats |-> cats[c].solved]

ManagerAddCats == {"geometry", "tree"}

AddProblem(category) ==
    /\ category \in DOMAIN categories
    /\ IF categories[category].solved < categories[category].total
       THEN /\ categories' = [categories EXCEPT ![category].solved = @ + 1]
            /\ savedProgress' = saveProgress(categories')
            /\ message' = [type |-> "success", category |-> category]
       ELSE /\ message' = [type |-> "info", category |-> category]
            /\ UNCHANGED <<categories, savedProgress>>
    /\ UNCHANGED <<classVars, fetchVars, syncVars, db, clientVars, timeVars, callVars>>

InitClient ==
    /\ data = loadData(defaultData, None, TRUE)
    /\ localStore = None
    /\ notification = None

InitManager ==
    /\ categories = ManagerCategories
    /\ savedProgress = None
    /\ message = None

(***************************************************************************)
(* categorizeCSESProblem and fetchCSESProgress on their own.               *)
(***************************************************************************)
Classify ==
    /\ classified = None
    /\ classified' = categorizeCSESProblem(problemId, getCSESCategories)
    /\ UNCHANGED <<problemId, fetchVars, syncVars, db, clientVars, managerVars, timeVars, callVars>>

FetchCSES ==
    /\ csesResult = None
    /\ \E ok \in BOOLEAN : csesResult' = fetchCSESProgress(solvedProblems, ok, clock)
    /\ UNCHANGED <<solvedProblems, remote, resolved, classVars, syncVars, db,
                   clientVars, managerVars, timeVars, callVars>>

(***************************************************************************)
(* What axios.get settles with.                                            *)
(***************************************************************************)
\* Rejections: the timeout option ran out, or the status was outside 2xx.
Timeout == [kind |-> "timeout"]
HttpError(status) == [kind |-> "status", status |-> status]
\* A 2xx response and its data.
Ok(payload) == [kind |-> "ok", data |-> payload]
\* The message of the error axios rejects with.
AxiosMessage(resp) ==
    IF resp.kind = "timeout" THEN Str("timeout exceeded")
    ELSE Str("Request failed with status code")

(***************************************************************************)
(* fetchCodeforcesProgress: the two API responses and what is computed     *)
(* from them.                                                              *)
(***************************************************************************)
SecondsPerDay == 86400

\* new Date(seconds * 1000).toDateString(): the calendar day of the instant.
toDateString(ms) == ms \div (SecondsPerDay * 1000)

\* ${v} inside a template literal.
TemplateString(v) ==
    IF v = Undefined THEN "undefined"
    ELSE IF v.t = "number" THEN ToString(v.v)
    ELSE v.s

\* Mutant: the key is the contest id alone.
ProblemKeyContestOnly(submission) == TemplateString(submission.problem.contestId)

\* `${submission.problem.contestId}${submission.problem.index}`
ProblemKey(submission) ==
    TemplateString(submission.problem.contestId) \o submission.problem.index

\* Mutant: the record is pushed without looking for its key.
DailySolvesStepNoFind(dailySolves, submission) ==
    IF submission.verdict = Str("OK")
    THEN LET solveDate == toDateString(submission.creationTimeSeconds * 1000)
             list == IF solveDate \in DOMAIN dailySolves
                     THEN dailySolves[solveDate] ELSE <<>>
         IN Put(dailySolves, solveDate,
                Append(list, [key |-> ProblemKey(submission),
                              name |-> submission.problem.name,
                              rating |-> OrElse(submission.problem.rating,
                                                Str("Unrated"))]))
    ELSE dailySolves

\* One iteration of the first submissions.forEach, on dailySolves.
DailySolvesStep(dailySolves, submission) ==
    IF submission.verdict = Str("OK")
    THEN LET problemKey == ProblemKey(submission)
             solveDate == toDateString(submission.creationTimeSeconds * 1000)
             list == IF solveDate \in DOMAIN dailySolves
                     THEN dailySolves[solveDate] ELSE <<>>
         IN IF \E i \in DOMAIN list : list[i].key = problemKey
            THEN Put(dailySolves, solveDate, list)
            ELSE Put(dailySolves, solveDate,
                     Append(list, [key |-> problemKey,
                                   name |-> submission.problem.name,
                                   rating |-> OrElse(submission.problem.rating,
                                                     Str("Unrated"))]))
    ELSE dailySolves

RECURSIVE DailySolves(_, _)
DailySolves(submissions, dailySolves) ==
    IF submissions = <<>> THEN dailySolves
    ELSE DailySolves(Tail(submissions), DailySolvesStep(dailySolves, Head(submissions)))

\* The Set solvedProblems after the first forEach.
SolvedKeys(submissions) ==
    {ProblemKey(submissions[i]) :
        i \in {j \in DOMAIN submissions : submissions[j].verdict = Str("OK")}}

\* Mutant: every submission's contest is added.
ContestIdsAnyParticipant(submissions) ==
    {submissions[i].contestId : i \in DOMAIN submissions}

\* The Set contests after the second forEach.
ContestIds(submissions) ==
    {submissions[i].contestId :
        i \in {j \in DOMAIN submissions :
                  submissions[j].author.participantType = Str("CONTESTANT")}}

\* Both responses carry status 'OK' and the results the code reads; anything
\* else throws inside the try block.
CodeforcesUsable(userResponse, submissionsResponse) ==
    /\ userResponse.kind = "ok"
    /\ Get(userResponse.data, "status") = Str("OK")
    /\ "result" \in DOMAIN userResponse.data
    /\ userResponse.data.result # <<>>
    /\ submissionsResponse.kind = "ok"
    /\ Get(submissionsResponse.data, "status") = Str("OK")
    /\ "result" \in DOMAIN submissionsResponse.data

\* The fields computed between the two requests and the return.
CodeforcesParse(userResponse, submissionsResponse) ==
    LET userInfo == userResponse.data.result[1]
        rating == OrElse(Get(userInfo, "rating"), Str("Unrated"))
        submissions == submissionsResponse.data.result
    IN [rating |-> rating,
        maxRating |-> OrElse(Get(userInfo, "maxRating"), rating),
        problemsSolved |-> Num(Cardinality(SolvedKeys(submissions))),
        contests |-> Num(Cardinality(ContestIds(submissions))),
        dailySolves |-> Obj(DailySolves(submissions, <<>>))]

\* fetchCodeforcesProgress(username) against what the two URLs answer.
CodeforcesFrom(username, userResponse, submissionsResponse, now) ==
    IF CodeforcesUsable(userResponse, submissionsResponse)
    THEN fetchCodeforcesProgress(username,
             CodeforcesParse(userResponse, submissionsResponse), TRUE, now)
    ELSE fetchCodeforcesProgress(username, <<>>, FALSE, now)

(***************************************************************************)
(* Inputs: answers of the Codeforces API.                                  *)
(***************************************************************************)
MaxSubmissions == 3

Submission(contestId, index, verdict, seconds, participantType, rating) ==
    [contestId |-> contestId,
     problem |-> [contestId |-> contestId, index |-> index, name |-> index,
                  rating |-> rating],
     verdict |-> Str(verdict),
     creationTimeSeconds |-> seconds,
     author |-> [participantType |-> Str(participantType)]]

\* Contest problems have a numeric contest id and an index that starts with a
\* letter; archive problems have no contest id and a numeric index.
SubmissionInputs ==
    {Submission(Num(1700), "A", "OK", 0, "CONTESTANT", Num(800)),
     Submission(Num(1700), "A", "OK", 86399, "CONTESTANT", Num(800)),
     Submission(Num(1700), "A", "OK", 86400, "PRACTICE", Num(800)),
     Submission(Num(1700), "B", "OK", 0, "CONTESTANT", Undefined),
     Submission(Num(1700), "C", "WRONG_ANSWER", 0, "CONTESTANT", Num(1500)),
     Submission(Num(11), "A", "OK", 172800, "VIRTUAL", Num(900)),
     Submission(Num(1), "A1", "OK", 0, "PRACTICE", Num(1000)),
     Submission(Undefined, "100", "OK", 86400, "PRACTICE", Undefined),
     Submission(Num(1701), "A", "WRONG_ANSWER", 172800, "VIRTUAL", Num(800)),
     Submission(Num(1701), "B", "OK", 172800, "CONTESTANT", Num(1200))}

ApiOk(result) == Ok([status |-> Str("OK"), result |-> result])
ApiFailed == Ok([status |-> Str("FAILED"), comment |-> Str("handle not found")])

UserInfoResponses ==
    {ApiOk(<<[handle |-> Str("u"), rating |-> Num(1500), maxRating |-> Num(1600)]>>),
     ApiOk(<<[handle |-> Str("u")]>>),
     ApiOk(<<>>),
     ApiFailed,
     Timeout,
     HttpError(503)}

UserStatusResponses ==
    {ApiOk(submissions) : submissions \in SeqsUpTo(SubmissionInputs, MaxSubmissions)}
        \cup {ApiFailed, Ok([status |-> Str("OK")]), Timeout, HttpError(503)}

\* fetchCodeforcesProgress('u') called on its own.
FetchCodeforces ==
    /\ resolved.codeforces = None
    /\ resolved' = [resolved EXCEPT
                       !.codeforces = CodeforcesFrom(Str("u"), remote.userInfo,
                                                     remote.userStatus, clock)]
    /\ UNCHANGED <<remote, solvedProblems, csesResult, classVars, syncVars, db,
                   clientVars, managerVars, timeVars, callVars>>

(***************************************************************************)
(* fetchVJudgeProgress: the profile page, the submissions page and what is *)
(* read from each.                                                         *)
(***************************************************************************)
\* parseInt(text) || 0
CountOf(text) == OrElse(parseInt(text), Num(0))

\* One iteration of $('.activity-cell').each.
ActivityStep(dailyActivity, cell) ==
    LET count == CountOf(cell.text)
    IN IF count.v > 0 /\ Truthy(cell.date)
       THEN Put(dailyActivity, cell.date.day, count.v)
       ELSE dailyActivity

RECURSIVE DailyActivity(_, _)
DailyActivity(cells, dailyActivity) ==
    IF cells = <<>> THEN dailyActivity
    ELSE DailyActivity(Tail(cells), ActivityStep(dailyActivity, Head(cells)))

\* The key toDateString gives for a string Date cannot read: 'Invalid Date'.
InvalidDate == -1

\* new Date(timeStr).toDateString()
DateOfStamp(timeStr) == IF "day" \in DOMAIN timeStr THEN timeStr.day ELSE InvalidDate

\* One iteration of $subs('tr.submission-row').each.
RecentStep(recentSolves, row) ==
    IF row.status = Str("Accepted")
    THEN LET date == DateOfStamp(row.timestamp)
             list == IF date \in DOMAIN recentSolves THEN recentSolves[date] ELSE <<>>
         IN Put(recentSolves, date,
                Append(list, [problem |-> row.problem, timestamp |-> row.timestamp]))
    ELSE recentSolves

RECURSIVE RecentSolves(_, _)
RecentSolves(rows, recentSolves) ==
    IF rows = <<>> THEN recentSolves
    ELSE RecentSolves(Tail(rows), RecentStep(recentSolves, Head(rows)))

\* The fields computed from the two pages.
VJudgeParse(profileResponse, submissionsResponse) ==
    [totalSolved |-> CountOf(profileResponse.data.solved),
     totalSubmitted |-> CountOf(profileResponse.data.submitted),
     dailyActivity |-> Obj(DailyActivity(profileResponse.data.cells, <<>>)),
     recentSolves |-> Obj(RecentSolves(submissionsResponse.data.rows, <<>>))]

\* Mutant: a date's activity count is set to the number of its recent solves.
VJudgeFromReconciled(username, profileResponse, submissionsResponse, now) ==
    IF profileResponse.kind = "ok" /\ submissionsResponse.kind = "ok"
    THEN LET parsed == VJudgeParse(profileResponse, submissionsResponse)
             recent == parsed.recentSolves.o
             daily == parsed.dailyActivity.o
         IN fetchVJudgeProgress(username,
                [parsed EXCEPT !.dailyActivity =
                    Obj([d \in DOMAIN daily |->
                            IF d \in DOMAIN recent THEN Len(recent[d]) ELSE daily[d]])],
                TRUE, now)
    ELSE fetchVJudgeProgress(username, <<>>, FALSE, now)

\* fetchVJudgeProgress(username) against what the two URLs answer.
VJudgeFrom(username, profileResponse, submissionsResponse, now) ==
    IF profileResponse.kind = "ok" /\ submissionsResponse.kind = "ok"
    THEN fetchVJudgeProgress(username, VJudgeParse(profileResponse, submissionsResponse),
                             TRUE, now)
    ELSE fetchVJudgeProgress(username, <<>>, FALSE, now)

(***************************************************************************)
(* Inputs: pages of the VJudge site.                                       *)
(***************************************************************************)
MaxCells == 2
MaxVJudgeRows == 2

\* The text of an element as parseInt reads it.
Text(n) == [lead |-> Digits(n), tail |-> ""]
NoText == [lead |-> <<>>, tail |-> ""]

CellInputs ==
    {[text |-> Text(3), date |-> Day(1)],
     [text |-> Text(1), date |-> Day(1)],
     [text |-> Text(0), date |-> Day(1)],
     [text |-> Text(2), date |-> Undefined]}

\* A timestamp cell: text Date can read, with the day it falls on.
Stamp(day, text) == [t |-> "string", day |-> day, s |-> text]

SubmissionRowInputs ==
    {[status |-> Str("Accepted"), problem |-> Str("P1"), timestamp |-> Stamp(1, "09:00")],
     [status |-> Str("Wrong Answer"), problem |-> Str("P3"), timestamp |-> Stamp(1, "11:00")],
     [status |-> Str("Accepted"), problem |-> Str("P4"), timestamp |-> Str("yesterday")]}

VJudgeUserResponses ==
    {Ok([solved |-> counts[1], submitted |-> counts[2], cells |-> cells]) :
        counts \in {<<Text(5), Text(9)>>, <<NoText, NoText>>},
        cells \in SeqsUpTo(CellInputs, MaxCells)}
        \cup {Timeout, HttpError(404)}

VJudgeSubmissionsResponses ==
    {Ok([rows |-> rows]) : rows \in SeqsUpTo(SubmissionRowInputs, MaxVJudgeRows)}
        \cup {Timeout, HttpError(404)}

\* fetchVJudgeProgress('u') called on its own, the site answering anew: since
\* the call before at most one of the two pages has changed.
FetchVJudge ==
    /\ LET answers ==
               IF resolved.vjudge = None
               THEN VJudgeUserResponses \X VJudgeSubmissionsResponses
               ELSE ({remote.vjudgeUser} \X VJudgeSubmissionsResponses)
                        \cup (VJudgeUserResponses \X {remote.vjudgeSubmissions})
       IN \E pages \in answers :
              /\ remote' = [remote EXCEPT !.vjudgeUser = pages[1],
                                          !.vjudgeSubmissions = pages[2]]
              /\ resolved' = [resolved EXCEPT
                                 !.vjudge = VJudgeFrom(Str("u"), pages[1], pages[2],
                                                       clock)]
    /\ UNCHANGED <<solvedProblems, csesResult, classVars, syncVars, db,
                   clientVars, managerVars, timeVars, callVars>>

(***************************************************************************)
(* fetchCSESTopics, as src/platformAPI.js has it and as the earlier copy   *)
(* of the module has it.                                                   *)
(***************************************************************************)
FallbackTopics ==
    <<[title |-> "Introductory Problems", count |-> Num(19)],
      [title |-> "Sorting and Searching", count |-> Num(35)],
      [title |-> "Dynamic Programming", count |-> Num(19)],
      [title |-> "Graph Algorithms", count |-> Num(36)],
      [title |-> "Range Queries", count |-> Num(19)],
      [title |-> "Tree Algorithms", count |-> Num(16)],
      [title |-> "Mathematics", count |-> Num(31)],
      [title |-> "String Algorithms", count |-> Num(17)],
      [title |-> "Geometry", count |-> Num(7)],
      [title |-> "Advanced Techniques", count |-> Num(24)],
      [title |-> "Additional Problems", count |-> Num(77)]>>

EarlierFallbackTopics ==
    <<[title |-> "Introductory Problems", count |-> Num(19)],
      [title |-> "Sorting and Searching", count |-> Num(35)],
      [title |-> "Dynamic Programming", count |-> Num(19)],
      [title |-> "Graph Algorithms", count |-> Num(36)],
      [title |-> "Range Queries", count |-> Num(19)],
      [title |-> "Tree Algorithms", count |-> Num(16)],
      [title |-> "Mathematics", count |-> JSNull],
      [title |-> "String Algorithms", count |-> JSNull],
      [title |-> "Geometry", count |-> JSNull],
      [title |-> "Advanced Techniques", count |-> JSNull],
      [title |-> "Additional Problems", count |-> JSNull]>>

\* if (!title || title.length > 50) return; ... if (count > 0) topics.push
HeadingTopics(headings) ==
    LET kept == SelectSeq(headings,
                    LAMBDA h : h.title.s # "" /\ Len(h.title.s) <= 50 /\ h.links > 0)
    IN [i \in DOMAIN kept |-> [title |-> kept[i].title, count |-> Num(kept[i].links)]]

\* The second pass, over the elements whose text contains "Problems".
KeywordTopics(elements) ==
    LET kept == SelectSeq(elements,
                    LAMBDA e : /\ e.text.s # ""
                               /\ e.words >= 2
                               /\ Len(e.text.s) <= 60
                               /\ e.links > 0)
    IN [i \in DOMAIN kept |-> [title |-> kept[i].text, count |-> Num(kept[i].links)]]

\* The filter callback answers true for topics[i]: its lower-cased title is
\* not in seen, its count is not 0, it has a letter and is under 60 long.
PassesFilter(topics, i) ==
    /\ topics[i].count # Num(0)
    /\ ~\E j \in 1..(i - 1) :
          topics[j].count # Num(0) /\ topics[j].title.lower = topics[i].title.lower
    /\ topics[i].title.letter
    /\ Len(topics[i].title.s) < 60

RECURSIVE FilterFrom(_, _)
FilterFrom(topics, i) ==
    IF i > Len(topics) THEN <<>>
    ELSE (IF PassesFilter(topics, i) THEN <<topics[i]>> ELSE <<>>)
             \o FilterFrom(topics, i + 1)

\* The titles and counts of a topic list, as returned.
Returned(topics) ==
    [i \in DOMAIN topics |-> [title |-> topics[i].title.s, count |-> topics[i].count]]

\* Mutant: what was parsed is returned also when it is empty.
fetchCSESTopicsNoFallback(resp) ==
    IF resp.kind # "ok"
    THEN [success |-> TRUE, fromCache |-> TRUE, error |-> AxiosMessage(resp),
          topics |-> FallbackTopics]
    ELSE LET first == HeadingTopics(resp.data.headings)
             topics == IF first = <<>> THEN KeywordTopics(resp.data.elements) ELSE first
         IN [success |-> TRUE, topics |-> Returned(FilterFrom(topics, 1))]

fetchCSESTopics(resp) ==
    IF resp.kind # "ok"
    THEN [success |-> TRUE, fromCache |-> TRUE, error |-> AxiosMessage(resp),
          topics |-> FallbackTopics]
    ELSE LET first == HeadingTopics(resp.data.headings)
             topics == IF first = <<>> THEN KeywordTopics(resp.data.elements) ELSE first
             filtered == FilterFrom(topics, 1)
         IN IF filtered = <<>>
            THEN [success |-> TRUE, fromCache |-> TRUE, topics |-> FallbackTopics]
            ELSE [success |-> TRUE, topics |-> Returned(filtered)]

\* The earlier copy: every h2 with a title is a topic, its count is the rows,
\* list items and task links after it (count || null).
fetchCSESTopicsEarlier(resp) ==
    IF resp.kind # "ok"
    THEN [success |-> TRUE, fromCache |-> TRUE, topics |-> EarlierFallbackTopics]
    ELSE LET titled == SelectSeq(resp.data.headings, LAMBDA h : h.title.s # "")
             topics == [i \in DOMAIN titled |->
                           [title |-> titled[i].title,
                            count |-> OrElse(Num(titled[i].rows + titled[i].links),
                                             JSNull)]]
             filtered == SelectSeq(topics,
                             LAMBDA t : t.title.letter /\ Len(t.title.s) < 60)
         IN IF filtered = <<>>
            THEN [success |-> TRUE, fromCache |-> TRUE, topics |-> EarlierFallbackTopics]
            ELSE [success |-> TRUE, topics |-> Returned(filtered)]

(***************************************************************************)
(* Inputs: the problem set page.                                           *)
(***************************************************************************)
MaxHeadings == 2

\* A text with what toLowerCase and /[a-z]/i.test make of it.
Title(s, lower, letter) == [s |-> s, lower |-> lower, letter |-> letter]

TitleInputs ==
    {Title("Introductory Problems", "introductory problems", TRUE),
     Title("INTRODUCTORY PROBLEMS", "introductory problems", TRUE),
     Title("", "", FALSE),
     Title("2024", "2024", FALSE),
     Title("Problems about graphs and trees and paths and cycles xx", "problems about graphs and trees and paths and cycles xx", TRUE)}

\* An h2 with the task links, and the rows and list items, that follow it.
HeadingInputs ==
    {[title |-> t, links |-> n, rows |-> n] : t \in TitleInputs, n \in {0, 3}}

\* An element whose text contains "Problems", with the task links near it.
ElementInputs ==
    {[text |-> Title("CSES Problems Set", "cses problems set", TRUE), words |-> 3, links |-> 3],
     [text |-> Title("Problems", "problems", TRUE), words |-> 1, links |-> 3],
     [text |-> Title("Problems about graphs and trees and paths and cycles and cut", "problems about graphs and trees and paths and cycles and cut", TRUE), words |-> 11, links |-> 3],
     [text |-> Title("All Problems", "all problems", TRUE), words |-> 2, links |-> 0]}

ProblemsetResponses ==
    {Ok([headings |-> headings, elements |-> elements]) :
        headings \in SeqsUpTo(HeadingInputs, MaxHeadings),
        elements \in SeqsUpTo(ElementInputs, 1)}
        \cup {Timeout, HttpError(503)}

\* fetchCSESTopics() of both copies, called on their own.
FetchTopics ==
    /\ resolved.topics = None
    /\ resolved' = [resolved EXCEPT !.topics = fetchCSESTopics(remote.problemset),
                                    !.topicsEarlier = fetchCSESTopicsEarlier(remote.problemset)]
    /\ UNCHANGED <<remote, solvedProblems, csesResult, classVars, syncVars, db,
                   clientVars, managerVars, timeVars, callVars>>

(***************************************************************************)
(* fetchCSESProgress against the profile page, and the three progress      *)
(* fetchers side by side.                                                  *)
(***************************************************************************)
\* $('.task-score.full').each: a row is pushed when it has a name and a link;
\* its id is the last segment of the link.
ProfileRows(tasks) ==
    LET kept == SelectSeq(tasks, LAMBDA task : Truthy(task.name) /\ Truthy(task.href))
    IN [i \in DOMAIN kept |->
           [name |-> kept[i].name.s, id |-> kept[i].href.last, solved |-> TRUE]]

\* fetchCSESProgress(username) against what the profile URL answers.
CSESFrom(resp, now) ==
    IF resp.kind = "ok"
    THEN fetchCSESProgress(ProfileRows(resp.data.tasks), TRUE, now)
    ELSE fetchCSESProgress(<<>>, FALSE, now)

\* A solved task of the profile page: its name and the link to it.
Task(name, id) == [name |-> Str(name), href |-> [t |-> "string", last |-> IdString(id)]]

\* The profile page with its solved tasks, or another page (a 200 answer
\* that is no profile) in which no selector matches.
CsesUserResponses ==
    {Ok([profile |-> TRUE, tasks |-> <<>>]),
     Ok([profile |-> TRUE, tasks |-> <<Task("Subordinates", 1674)>>]),
     Ok([profile |-> TRUE, tasks |-> <<Task("Subordinates", 1674), Task("", 1130)>>]),
     Ok([profile |-> FALSE, tasks |-> <<>>]),
     Timeout,
     HttpError(404)}

\* Answers of the other four URLs, good and bad.
FewAnswers ==
    [userInfo |-> UserInfoResponses,
     userStatus |-> {ApiOk(<<>>), ApiFailed, Ok([status |-> Str("OK")]), Timeout}
                        \cup {ApiOk(<<s>>) : s \in SubmissionInputs},
     vjudgeUser |-> {Ok([solved |-> Text(5), submitted |-> Text(9),
                         cells |-> <<[text |-> Text(3), date |-> Day(1)]>>]),
                     Ok([solved |-> NoText, submitted |-> NoText, cells |-> <<>>]),
                     Timeout, HttpError(404)},
     vjudgeSubmissions |-> {Ok([rows |-> rows]) : rows \in SeqsUpTo(SubmissionRowInputs, 1)}
                               \cup {Timeout}]

\* What fetcher f, called with username 'u', resolves to.
FetcherFrom(f, answers, now) ==
    CASE f = "cses" -> CSESFrom(answers.csesUser, now)
      [] f = "codeforces" ->
            CodeforcesFrom(Str("u"), answers.userInfo, answers.userStatus, now)
      [] f = "vjudge" ->
            VJudgeFrom(Str("u"), answers.vjudgeUser, answers.vjudgeSubmissions, now)

ProgressFetchers == {"cses", "codeforces", "vjudge"}

\* One of the three progress fetchers is called on its own.
Resolve(f) ==
    /\ resolved[f] = None
    /\ resolved' = [resolved EXCEPT ![f] = FetcherFrom(f, remote, clock)]
    /\ UNCHANGED <<remote, solvedProblems, csesResult, classVars, syncVars, db,
                   clientVars, managerVars, timeVars, callVars>>

(***************************************************************************)
(* CPJourney: startJourney and addUSACOProblem                             *)
(***************************************************************************)
MaxUsaco == 1

\* startJourney() of a signed-in user, with the POST /api/journey of saveData.
StartJourney ==
    /\ pc = "idle"
    /\ IF data.journeyStarted
       THEN /\ notification' = [type |-> "warning", category |-> "journey"]
            /\ UNCHANGED <<data, localStore, db>>
       ELSE /\ data' = [data EXCEPT !.journeyStarted = TRUE,
                                    !.startDate = Num(clock),
                                    !.startedBy = Str("u")]
            /\ localStore' = data'
            /\ \E online \in BOOLEAN : db' = writeDatabase(db, data', clock, online)
            /\ notification' = [type |-> "success", category |-> "journey"]
    /\ UNCHANGED <<classVars, fetchVars, syncVars, managerVars, timeVars, callVars>>

UsacoLevels == {"bronze"}

\* addUSACOProblem(level), with the POST /api/journey of saveData.
AddUSACOProblem(level) ==
    /\ pc = "idle"
    /\ data.usaco[level] < MaxUsaco
    /\ data' = updateStreak([data EXCEPT !.usaco[level] = @ + 1], today)
    /\ localStore' = data'
    /\ \E online \in BOOLEAN : db' = writeDatabase(db, data', clock, online)
    /\ notification' = [type |-> "success", category |-> level]
    /\ UNCHANGED <<classVars, fetchVars, syncVars, managerVars, timeVars, callVars>>

(***************************************************************************)
(* The per-platform sync endpoints step by step: each await of a handler   *)
(* (the fetch, readDatabase, writeDatabase) lets other requests run.       *)
(***************************************************************************)
\* What the handler of /api/sync/<p> assigns to the record it read.
SyncMerge(p, journey, username, out, day) ==
    CASE p = "cses" -> SyncCsesMerge(journey, username, out)
      [] p = "codeforces" -> SyncCodeforcesMerge(journey, username, out)
      [] p = "vjudge" -> SyncVJudgeMerge(journey, username, out, day)

\* POST /api/sync/<p> arrives and its platform fetch resolves; a failed fetch
\* is answered at once.
SyncFetched(c, p) ==
    /\ calls[c].at = "idle"
    /\ \E out \in FetchOutcomes(p, Str("u"), clock) :
          calls' = [calls EXCEPT ![c] =
                       [at |-> IF out.success THEN "sync:fetched" ELSE "sync:answered",
                        endpoint |-> p, fetched |-> out, saved |-> FALSE]]
    /\ UNCHANGED <<users, classVars, fetchVars, syncVars, db, clientVars, managerVars,
                   timeVars>>

\* const journeyData = await readDatabase()
SyncRead(c) ==
    /\ calls[c].at = "sync:fetched"
    /\ calls' = [calls EXCEPT ![c] = [at |-> "sync:read", journeyData |-> db] @@ @]
    /\ UNCHANGED <<users, classVars, fetchVars, syncVars, db, clientVars, managerVars,
                   timeVars>>

\* The assignments to journeyData, await writeDatabase(journeyData), res.json.
SyncWrite(c) ==
    /\ calls[c].at = "sync:read"
    /\ \E ioOk \in BOOLEAN :
          /\ db' = writeDatabase(db,
                       SyncMerge(calls[c].endpoint, calls[c].journeyData, Str("u"),
                                 calls[c].fetched, today),
                       clock, ioOk)
          /\ calls' = [calls EXCEPT ![c] = [at |-> "sync:answered", saved |-> ioOk] @@ @]
    /\ UNCHANGED <<users, classVars, fetchVars, syncVars, clientVars, managerVars,
                   timeVars>>

(***************************************************************************)
(* CPJourney.syncVJudge: the POST to /api/sync/vjudge, then                *)
(* updateStreakFromVJudge (whose saveData posts this.data to /api/journey  *)
(* without being awaited), then loadData.                                  *)
(***************************************************************************)
\* syncVJudge up to await this.loadData(): the server's handler of
\* /api/sync/vjudge runs between the fetch and its response; the client's
\* own call is "one" and the request its saveData sent is "other".
ClientSyncVJudge ==
    /\ calls.one.at = "idle" /\ calls.other.at = "idle"
    /\ \E vjData \in FetchOutcomes("vjudge", Str("u"), clock), ioOk \in BOOLEAN :
          LET streak == updateStreak(data, today)
              saves == /\ vjData.success
                       /\ ActiveOn(Get(vjData, "dailyActivity"), today)
                       /\ streak # data
          IN /\ db' = IF vjData.success
                      THEN writeDatabase(db, SyncVJudgeMerge(db, Str("u"), vjData, today),
                                         clock, ioOk)
                      ELSE db
             /\ data' = IF saves THEN streak ELSE data
             /\ localStore' = IF saves THEN streak ELSE localStore
             /\ calls' = [one |-> IF vjData.success
                                  THEN [at |-> "vjudge:loading", fetched |-> vjData,
                                        saved |-> ioOk]
                                  ELSE NotCalled,
                          other |-> IF saves
                                    THEN [at |-> "journey:posted", newData |-> streak]
                                    ELSE NotCalled]
             /\ notification' = [type |-> IF vjData.success THEN "success" ELSE "error",
                                 category |-> "vjudge"]
    /\ UNCHANGED <<users, classVars, fetchVars, syncVars, managerVars, timeVars>>

\* POST /api/journey: writeDatabase(req.body).
JourneyPost ==
    /\ calls.other.at = "journey:posted"
    /\ \E ioOk \in BOOLEAN : db' = writeDatabase(db, calls.other.newData, clock, ioOk)
    /\ calls' = [calls EXCEPT !.other = NotCalled]
    /\ UNCHANGED <<users, classVars, fetchVars, syncVars, clientVars, managerVars,
                   timeVars>>

\* await this.loadData() returns and syncVJudge ends.
ClientSyncLoaded ==
    /\ calls.one.at = "vjudge:loading"
    /\ \E online \in BOOLEAN : data' = loadData(db, localStore, online)
    /\ calls' = [calls EXCEPT !.one = [at |-> "vjudge:synced"] @@ @]
    /\ UNCHANGED <<users, localStore, notification, classVars, fetchVars, syncVars, db,
                   managerVars, timeVars>>

\* The page is used again after a finished sync.
ClientSyncAgain ==
    /\ calls.one.at = "vjudge:synced" /\ calls.other.at = "idle"
    /\ calls' = [calls EXCEPT !.one = NotCalled]
    /\ UNCHANGED <<users, classVars, fetchVars, syncVars, db, clientVars, managerVars,
                   timeVars>>

(***************************************************************************)
(* Two calls of syncAllPlatforms on one PlatformAPI instance.              *)
(***************************************************************************)
\* The username each caller passes for every platform.
UsernameOf == [one |-> Str("u"), other |-> Str("v")]

\* An object shared by the calls instead of one per call.
ResultsObjectShared(c) == "one"
\* The object the then-callbacks of call c assign to: the const results of
\* that call.
ResultsObjectOf(c) == c

\* syncAllPlatforms(usernames) up to await Promise.allSettled(promises).
CallSyncAll(c, requested) ==
    /\ calls[c].at \in {"idle", "all:returned"}
    /\ LET usernames == Obj([p \in Platforms |->
                                IF p \in requested THEN UsernameOf[c] ELSE Str("")])
       IN calls' = [calls EXCEPT ![c] =
                       [at |-> "all:fetching", usernames |-> usernames,
                        results |-> NewResults(clock), promises |-> Pushed(usernames),
                        fetched |-> NoFetched]]
    /\ UNCHANGED <<users, classVars, fetchVars, syncVars, db, clientVars, managerVars,
                   timeVars>>

\* One platform fetch of call c resolves and its then-callback runs.
CallFetchDone(c, p) ==
    /\ calls[c].at = "all:fetching"
    /\ calls[c].promises[p] = "pending"
    /\ \E out \in FetchOutcomes(p, PropertyOf(calls[c].usernames, p), clock) :
          LET settled == [calls EXCEPT ![c].promises[p] = "settled",
                                       ![c].fetched[p] = out]
              target == ResultsObjectOf(c)
          IN calls' = IF "results" \in DOMAIN settled[target]
                      THEN [settled EXCEPT ![target].results = ThenAssign(@, p, out)]
                      ELSE settled
    /\ UNCHANGED <<users, classVars, fetchVars, syncVars, db, clientVars, managerVars,
                   timeVars>>

\* Promise.allSettled resolves and the call returns its results.
CallReturn(c) ==
    /\ calls[c].at = "all:fetching"
    /\ AllSettled(calls[c].promises)
    /\ calls' = [calls EXCEPT ![c].at = "all:returned"]
    /\ UNCHANGED <<users, classVars, fetchVars, syncVars, db, clientVars, managerVars,
                   timeVars>>

(***************************************************************************)
(* fetchCodeforcesProgress and fetchVJudgeProgress request by request.     *)
(***************************************************************************)
\* The URLs each of the two fetchers asks, in the order of its awaits.
RequestUrls ==
    [codeforces |-> <<"userInfo", "userStatus">>,
     vjudge |-> <<"vjudgeUser", "vjudgeSubmissions">>]

\* The second request is sent whatever the first one gave.
FirstUsableAlways(f, resp) == TRUE
\* Control reaches the second axios.get: the first await did not reject and
\* nothing between the two requests threw.
FirstUsable(f, resp) ==
    /\ resp.kind = "ok"
    /\ f = "codeforces" =>
          /\ Get(resp.data, "status") = Str("OK")
          /\ "result" \in DOMAIN resp.data
          /\ resp.data.result # <<>>

\* What the fetcher resolves to from the answers it got; a request that was
\* not answered counts as rejected.
ResolvedFrom(f, first, second) ==
    FetcherFrom(f, [NoAnswers EXCEPT ![RequestUrls[f][1]] = first,
                                     ![RequestUrls[f][2]] = second], clock)

\* The fetcher is called, sends its first request and gets the answer: it
\* sends the second request or resolves through its catch block.
FirstAnswered(c, f) ==
    /\ calls[c].at \in {"idle", "fetch:resolved"}
    /\ \E resp \in FewAnswers[RequestUrls[f][1]] :
          calls' = [calls EXCEPT ![c] =
                       IF FirstUsable(f, resp)
                       THEN [at |-> "fetch:second", fetcher |-> f, first |-> resp,
                             requests |-> RequestUrls[f]]
                       ELSE [at |-> "fetch:resolved", fetcher |-> f, first |-> resp,
                             requests |-> <<RequestUrls[f][1]>>,
                             result |-> ResolvedFrom(f, resp, Timeout)]]
    /\ UNCHANGED <<users, classVars, fetchVars, syncVars, db, clientVars, managerVars,
                   timeVars>>

\* The second request is answered and the fetcher resolves.
SecondAnswered(c) ==
    /\ calls[c].at = "fetch:second"
    /\ \E resp \in FewAnswers[RequestUrls[calls[c].fetcher][2]] :
          calls' = [calls EXCEPT ![c] =
                       [at |-> "fetch:resolved", second |-> resp,
                        result |-> ResolvedFrom(calls[c].fetcher, calls[c].first, resp)]
                           @@ @]
    /\ UNCHANGED <<users, classVars, fetchVars, syncVars, db, clientVars, managerVars,
                   timeVars>>

(***************************************************************************)
(* AuthManager.registerUser, await by await.                               *)
(***************************************************************************)
\* What the callers register with.
RegisterInputs ==
    {[username |-> n, email |-> e, password |-> Str("pw")] :
        n \in {Str(""), Str("ann"), Str("bob")}, e \in {Str("ann@x"), Str("bob@x")}}

\* usersData.users.find(u => u.username === username || u.email === email)
ExistingUser(list, userData) ==
    \E i \in DOMAIN list :
        list[i].username = userData.username \/ list[i].email = userData.email

\* registerUser from its call to the end of the check for an existing user:
\* the validation, await this.readUsers(), the find.
RegisterRead(c, userData) ==
    /\ calls[c].at \in {"idle", "register:returned"}
    /\ calls' = [calls EXCEPT ![c] =
          IF ~(Truthy(userData.username) /\ Truthy(userData.email)
                  /\ Truthy(userData.password))
          THEN [at |-> "register:returned", userData |-> userData,
                result |-> [success |-> FALSE, error |-> "Missing required fields"]]
          ELSE IF ExistingUser(users, userData)
          THEN [at |-> "register:returned", userData |-> userData,
                result |-> [success |-> FALSE, error |-> "User already exists"]]
          ELSE [at |-> "register:hashing", userData |-> userData, usersData |-> users]]
    /\ UNCHANGED <<users, classVars, fetchVars, syncVars, db, clientVars, managerVars,
                   timeVars>>

\* After await bcrypt.hash: usersData.users.push(newUser), await
\* this.writeUsers(usersData) and the return.
RegisterWrite(c) ==
    /\ calls[c].at = "register:hashing"
    /\ \E saved \in BOOLEAN :
          LET newUser == [username |-> calls[c].userData.username,
                          email |-> calls[c].userData.email]
          IN /\ users' = IF saved THEN Append(calls[c].usersData, newUser) ELSE users
             /\ calls' = [calls EXCEPT ![c] =
                   [at |-> "register:returned", userData |-> calls[c].userData,
                    result |-> IF saved
                               THEN [success |-> TRUE, user |-> newUser]
                               ELSE [success |-> FALSE, error |-> "Failed to save user"]]]
    /\ UNCHANGED <<classVars, fetchVars, syncVars, db, clientVars, managerVars, timeVars>>

(***************************************************************************)
(* CPJourney.updateStreak called on its own.                               *)
(***************************************************************************)
MaxStreakDay == 4

\* One or more midnights pass before the page is used again.
DaysPass(n) ==
    /\ today + n <= MaxStreakDay
    /\ today' = today + n
    /\ UNCHANGED <<classVars, fetchVars, syncVars, db, clientVars, managerVars, clock,
                   callVars>>

\* updateStreak(), with the localStorage write and the POST /api/journey of
\* its saveData; a call on the day of lastActiveDate returns before them.
UpdateStreak ==
    /\ pc = "idle"
    /\ data' = updateStreak(data, today)
    /\ IF data' = data
       THEN UNCHANGED <<localStore, db>>
       ELSE /\ localStore' = data'
            /\ \E online \in BOOLEAN : db' = writeDatabase(db, data', clock, online)
    /\ UNCHANGED <<notification, classVars, fetchVars, syncVars, managerVars, timeVars,
                   callVars>>

(***************************************************************************)
(* CPJourney.fetchWithRetry                                                *)
(***************************************************************************)
\* this.apiRetryCount, the default of the retries parameter.
apiRetryCount == 3

\* What one fetch settles with: a response (ok or not), or a rejection with
\* the name of its error.
FetchSettlements ==
    {[kind |-> "response", ok |-> TRUE, status |-> 200],
     [kind |-> "response", ok |-> FALSE, status |-> 500],
     [kind |-> "rejected", name |-> "TypeError"],
     [kind |-> "rejected", name |-> "NetworkError"],
     [kind |-> "rejected", name |-> "AbortError"]}

\* The error the catch block sees: the rejection, or the Error thrown for a
\* response that is not ok.
CaughtError(settled) ==
    IF settled.kind = "rejected" THEN settled
    ELSE [kind |-> "rejected", name |-> "Error", status |-> settled.status]

\* A catch block that retries after any error.
RetriesOnAnyError(retries, error) == retries > 0
\* retries > 0 && (error.name === 'NetworkError' || error.name === 'TypeError')
Retries(retries, error) ==
    retries > 0 /\ error.name \in {"NetworkError", "TypeError"}

\* fetchWithRetry(url, options, retries) sends its first request.
FetchWithRetry(c, retries) ==
    /\ calls[c].at \in {"idle", "retry:returned", "retry:thrown"}
    /\ calls' = [calls EXCEPT ![c] =
                    [at |-> "retry:requesting", given |-> retries, retries |-> retries,
                     sent |-> 1, settled |-> <<>>]]
    /\ UNCHANGED <<users, classVars, fetchVars, syncVars, db, clientVars, managerVars,
                   timeVars>>

\* The request in flight settles: the response is returned, or the catch
\* block rethrows, or it waits apiRetryDelay and the recursive call sends the
\* next request.
RequestSettles(c, settled) ==
    /\ calls[c].at = "retry:requesting"
    /\ LET all == Append(calls[c].settled, settled)
       IN calls' = [calls EXCEPT ![c] =
             IF settled.kind = "response" /\ settled.ok
             THEN [@ EXCEPT !.at = "retry:returned", !.settled = all]
             ELSE IF Retries(calls[c].retries, CaughtError(settled))
             THEN [@ EXCEPT !.retries = @ - 1, !.sent = @ + 1, !.settled = all]
             ELSE [@ EXCEPT !.at = "retry:thrown", !.settled = all]]
    /\ UNCHANGED <<users, classVars, fetchVars, syncVars, db, clientVars, managerVars,
                   timeVars>>

(***************************************************************************)
(* Specifications.                                                         *)
(***************************************************************************)
\* The server's sync endpoints.
Init == InitIdle /\ InitServer /\ InitClient /\ InitManager /\ InitClock /\ InitCalls

Next ==
    \/ \E usernames \in AllBodies : SyncAllRequest(usernames)
    \/ \E p \in Platforms : SyncAllFetchDone(p)
    \/ SyncAllJoin
    \/ SyncAllMerge
    \/ \E p \in Platforms, username \in UsernameValues : SyncOneRequest(p, username)
    \/ SyncCSESDone
    \/ SyncCodeforcesDone
    \/ SyncVJudgeDone

Spec == Init /\ [][Next]_vars

\* The classifier over the ids of the table and ids outside it.
InitClassify ==
    /\ problemId \in ClassifyInputs
    /\ classified = None
    /\ solvedProblems = <<>>
    /\ csesResult = None
    /\ InitRemote
    /\ InitServer /\ InitClient /\ InitManager /\ InitClock /\ InitCalls

SpecClassify == InitClassify /\ [][Classify]_vars

\* fetchCSESProgress over lists of solved rows.
InitFetch ==
    /\ problemId = None
    /\ classified = None
    /\ solvedProblems \in RowInputs
    /\ csesResult = None
    /\ InitRemote
    /\ InitServer /\ InitClient /\ InitManager /\ InitClock /\ InitCalls

SpecFetch == InitFetch /\ [][FetchCSES]_vars

\* The manual counters of the page.
NextAdd ==
    \/ \E c \in AddCats : AddCSESProblem(c)
    \/ \E c \in ManagerAddCats : AddProblem(c)
    \/ NextDay

SpecAdd == Init /\ [][NextAdd]_vars

\* Manual counting and CSES syncs on one journey record.
NextManual ==
    \/ \E c \in AddCats : AddCSESProblem(c)
    \/ LoadData
    \/ \E username \in UsernameValues : SyncOneRequest("cses", username)
    \/ SyncCSESDone

SpecManual == Init /\ [][NextManual]_vars

\* fetchCodeforcesProgress over answers of the two API methods.
InitCodeforces ==
    /\ problemId = None
    /\ classified = None
    /\ solvedProblems = <<>>
    /\ csesResult = None
    /\ \E userResponse \in UserInfoResponses, submissionsResponse \in UserStatusResponses :
          remote = [NoAnswers EXCEPT !.userInfo = userResponse,
                                     !.userStatus = submissionsResponse]
    /\ resolved = NoneResolved
    /\ InitServer /\ InitClient /\ InitManager /\ InitClock /\ InitCalls

SpecCodeforces == InitCodeforces /\ [][FetchCodeforces]_vars

\* fetchVJudgeProgress called again and again while the site's pages change.
SpecVJudge == Init /\ [][FetchVJudge]_vars

\* fetchCSESTopics over problem set pages.
InitTopics ==
    /\ problemId = None
    /\ classified = None
    /\ solvedProblems = <<>>
    /\ csesResult = None
    /\ \E resp \in ProblemsetResponses : remote = [NoAnswers EXCEPT !.problemset = resp]
    /\ resolved = NoneResolved
    /\ InitServer /\ InitClient /\ InitManager /\ InitClock /\ InitCalls

SpecTopics == InitTopics /\ [][FetchTopics]_vars

\* The three progress fetchers over good and bad answers of their URLs.
InitResolve ==
    /\ problemId = None
    /\ classified = None
    /\ solvedProblems = <<>>
    /\ csesResult = None
    /\ \E page \in CsesUserResponses,
          userResponse \in FewAnswers.userInfo,
          statusResponse \in FewAnswers.userStatus,
          profileResponse \in FewAnswers.vjudgeUser,
          submissionsResponse \in FewAnswers.vjudgeSubmissions :
          remote = [NoAnswers EXCEPT !.csesUser = page,
                                     !.userInfo = userResponse,
                                     !.userStatus = statusResponse,
                                     !.vjudgeUser = profileResponse,
                                     !.vjudgeSubmissions = submissionsResponse]
    /\ resolved = NoneResolved
    /\ InitServer /\ InitClient /\ InitManager /\ InitClock /\ InitCalls

SpecResolve == InitResolve /\ [][\E f \in ProgressFetchers : Resolve(f)]_vars

\* Manual changes of the journey and syncs of every kind on one record.
NextKeep ==
    \/ StartJourney
    \/ \E level \in UsacoLevels : AddUSACOProblem(level)
    \/ \E p \in Platforms : SyncOneRequest(p, Str("u"))
    \/ SyncCSESDone
    \/ SyncCodeforcesDone
    \/ SyncVJudgeDone
    \/ SyncAllRequest(Obj([p \in Platforms |-> Str("u")]))
    \/ \E p \in Platforms : SyncAllFetchDone(p)
    \/ SyncAllJoin
    \/ SyncAllMerge

SpecKeep == Init /\ [][NextKeep]_vars

\* Two requests to the per-platform sync endpoints that may overlap.
NextOverlap ==
    \/ \E c \in Callers, p \in Platforms : SyncFetched(c, p)
    \/ \E c \in Callers : SyncRead(c)
    \/ \E c \in Callers : SyncWrite(c)

SpecOverlap == Init /\ [][NextOverlap]_vars

\* The client's VJudge sync against the server, over the days.
NextClientSync ==
    \/ ClientSyncVJudge
    \/ JourneyPost
    \/ ClientSyncLoaded
    \/ ClientSyncAgain
    \/ NextDay

SpecClientSync == Init /\ [][NextClientSync]_vars

\* Two callers of syncAllPlatforms whose calls may overlap.
RequestedSets == {Platforms, {"cses", "codeforces"}}

NextCalls ==
    \/ \E c \in Callers, requested \in RequestedSets : CallSyncAll(c, requested)
    \/ \E c \in Callers, p \in Platforms : CallFetchDone(c, p)
    \/ \E c \in Callers : CallReturn(c)

SpecCalls == Init /\ [][NextCalls]_vars

\* The two-request fetchers, request by request.
NextRequests ==
    \/ \E c \in Callers, f \in DOMAIN RequestUrls : FirstAnswered(c, f)
    \/ \E c \in Callers : SecondAnswered(c)

SpecRequests == Init /\ [][NextRequests]_vars

\* Two callers of registerUser whose calls may overlap.
NextRegister ==
    \/ \E c \in Callers, userData \in RegisterInputs : RegisterRead(c, userData)
    \/ \E c \in Callers : RegisterWrite(c)

SpecRegister == Init /\ [][NextRegister]_vars

\* The streak over the days, with the other manual changes of the journey.
NextStreak ==
    \/ UpdateStreak
    \/ \E n \in 1..2 : DaysPass(n)
    \/ StartJourney
    \/ \E level \in UsacoLevels : AddUSACOProblem(level)

SpecStreak == Init /\ [][NextStreak]_vars

\* fetchWithRetry over every sequence of settlements; in the fair
\* specification every request in flight settles (fetch settles its promise
\* and the timer of the delay fires).
RetryBudgets == {0, 1, apiRetryCount}

NextRetry ==
    \/ \E c \in Callers, retries \in RetryBudgets : FetchWithRetry(c, retries)
    \/ \E c \in Callers, settled \in FetchSettlements : RequestSettles(c, settled)

SpecRetry == Init /\ [][NextRetry]_vars

SpecRetryFair ==
    /\ SpecRetry
    /\ \A c \in Callers :
          WF_vars(\E settled \in FetchSettlements : RequestSettles(c, settled))

(***************************************************************************)
(* Properties of syncAllPlatforms and of POST /api/sync/all (Spec).        *)
(***************************************************************************)
Requested(p) == body # None /\ Truthy(PropertyOf(body, p))
Failed(r) == r # JSNull /\ ~r.success
Succeeded(r) == r # JSNull /\ r.success

\* C1: when syncAllPlatforms returns, every requested platform whose fetch
\* succeeded is in the results with exactly the object its own fetch resolved
\* to, and every requested platform whose fetch failed is there with
\* success = false, whatever the other platforms' outcomes were.
IsolationAtReturn ==
    pc = "all:returned" =>
        \A p \in Platforms :
            Requested(p) =>
                /\ fetched[p] # None
                /\ fetched[p].success => results[p] = fetched[p]
                /\ ~fetched[p].success => Failed(results[p])

IsolationWitness ==
    /\ pc = "all:returned"
    /\ Requested("cses") /\ Requested("codeforces")
    /\ Failed(results.cses)
    /\ Succeeded(results.codeforces)
    /\ results.codeforces = fetched.codeforces

\* C2: a call of syncAllPlatforms made by the endpoint never rejects (the
\* handler never answers 500) and what it returns is the results object with
\* its three platform slots and syncTime, also when every fetch failed.
SyncAllNeverRejects ==
    /\ response # None => response.status # 500
    /\ pc = "all:returned" =>
          /\ DOMAIN results = Platforms \cup {"syncTime"}
          /\ \A p \in Platforms : results[p] = JSNull \/ results[p].success \in BOOLEAN

AllFailedWitness ==
    /\ pc = "all:returned"
    /\ \A p \in Platforms : Requested(p) /\ Failed(results[p])

\* C3: syncAllPlatforms returns only when every promise it pushed has settled,
\* with a non-null result for every requested platform; until then a promise
\* of a requested platform is pending or settled, never dropped.
ReturnsAfterAllSettled ==
    /\ pc = "all:returned" =>
          \A p \in Platforms :
              Requested(p) => promises[p] = "settled" /\ results[p] # JSNull
    /\ pc = "all:fetching" =>
          \A p \in Platforms : Requested(p) => promises[p] \in {"pending", "settled"}

WaitedForOthersWitness ==
    /\ pc = "all:returned"
    /\ \A p \in Platforms : Requested(p) /\ promises[p] = "settled"
    /\ Failed(results.cses)
    /\ Succeeded(results.codeforces)
    /\ Succeeded(results.vjudge)

MergeStep == pc = "all:returned" /\ pc' = "idle"

\* C4: the sync-all merge leaves journey.cses as it was when the CSES result
\* failed or is absent, and journey.codeforces (rating, problemsSolved,
\* contests) as it was when the Codeforces result failed or is absent.
FailedPlatformsKeepProgress ==
    [][MergeStep =>
          /\ ~Succeeded(results.cses) => db'.cses = db.cses
          /\ ~Succeeded(results.codeforces) => db'.codeforces = db.codeforces]_vars

IsSyncAllResponse ==
    /\ response # None
    /\ "results" \in DOMAIN response

KeptProgressWitness ==
    /\ pc = "idle"
    /\ IsSyncAllResponse
    /\ Failed(response.results.cses)
    /\ Failed(response.results.codeforces)
    /\ db.cses.tree.solved = 1
    /\ db.codeforces.rating = Num(1500)
    /\ "lastAutoSync" \in DOMAIN db

SyncedFields == {"totalSolved", "dailyActivity", "dailySolves", "maxRating", "lastSync"}

\* C5: the sync-all merge leaves what is stored under platforms.p
\* (totalSolved, dailyActivity, dailySolves, maxRating, lastSync) as it was
\* for every platform p whose fetch failed.
FailedSyncKeepsPlatformData ==
    [][MergeStep =>
          \A p \in Platforms :
              (Failed(results[p]) /\ p \in DOMAIN PlatformsOf(db)) =>
                  \A f \in SyncedFields :
                      Get(PlatformsOf(db')[p], f) = Get(PlatformsOf(db)[p], f)]_vars

(***************************************************************************)
(* Properties of the CSES counters.                                        *)
(***************************************************************************)
\* C6 (SpecManual): a successful POST /api/sync/cses leaves no category's
\* stored solved counter below what it was before the sync.
SolvedNeverDecreasesOnSync ==
    [][(pc = "cses" /\ pc' = "idle") =>
          \A c \in CatNames : db'.cses[c].solved >= db.cses[c].solved]_vars

\* C7 (SpecFetch): every category of a successful fetchCSESProgress result has
\* solved <= total, for every list of solved rows.
FetchedSolvedWithinTotal ==
    (csesResult # None /\ csesResult.success) =>
        \A c \in CatNames :
            csesResult.categories[c].solved <= csesResult.categories[c].total

Info(c) == [type |-> "info", category |-> c]

\* C8 (SpecAdd): after any sequence of addCSESProblem and addProblem calls
\* every category has solved <= total, and a call for a category that is full
\* changes neither the counters, the streak fields nor what is saved.
AddKeepsWithinTotal ==
    /\ [](/\ \A c \in CatNames : data.cses[c].solved <= data.cses[c].total
          /\ \A c \in CatNames : db.cses[c].solved <= db.cses[c].total
          /\ \A c \in DOMAIN categories : categories[c].solved <= categories[c].total)
    /\ [][/\ \A c \in CatNames :
                (data.cses[c].solved = data.cses[c].total /\ notification' = Info(c))
                    => UNCHANGED <<data, localStore, db>>
          /\ \A c \in DOMAIN categories :
                (categories[c].solved = categories[c].total /\ message' = Info(c))
                    => UNCHANGED <<categories, savedProgress>>]_vars

FullCategoryWitness ==
    /\ data.cses.tree.solved = data.cses.tree.total
    /\ notification = Info("tree")
    /\ data.currentStreak = 2
    /\ categories.geometry.solved = categories.geometry.total
    /\ message = Info("geometry")

\* C9 (SpecClassify): for an id string of digits, categorizeCSESProblem
\* returns c for every category c whose bucket holds the id, and null when no
\* bucket holds it.
ClassifiesToContainingBucket ==
    (classified # None /\ problemId.tail = "") =>
        LET id == parseInt(problemId).v
        IN /\ \A c \in CatNames :
                Includes(getCSESCategories[c], id) => classified = Str(c)
           /\ id \notin TableIds => classified = JSNull

IsUnknown(row) == categorizeCSESProblem(row.id, getCSESCategories) = JSNull
UnknownRows == {i \in DOMAIN solvedProblems : IsUnknown(solvedProblems[i])}
RowsOf(c) ==
    {i \in DOMAIN solvedProblems :
        categorizeCSESProblem(solvedProblems[i].id, getCSESCategories) = Str(c)}

\* C10 as stated (SpecFetch): a solved row whose id is in no bucket adds to no
\* count of the result, totalSolved included.
UnknownIdsCountedNowhere ==
    (csesResult # None /\ csesResult.success) =>
        /\ \A c \in CatNames :
              /\ csesResult.categories[c].solved = Cardinality(RowsOf(c))
              /\ \A i \in DOMAIN csesResult.categories[c].problems :
                    ~IsUnknown(csesResult.categories[c].problems[i])
        /\ csesResult.totalSolved = Num(Len(solvedProblems) - Cardinality(UnknownRows))

\* C10 amended (SpecFetch): a solved row whose id is in no bucket raises no
\* category's solved counter, is in no category's problems list and makes the
\* fetch fail in no way; it is counted in totalSolved, which is the number of
\* all parsed rows.
UnknownIdsInNoCategory ==
    /\ csesResult # None =>
          csesResult.success \/ csesResult.error = Str("request failed")
    /\ (csesResult # None /\ csesResult.success) =>
          /\ \A c \in CatNames :
                /\ csesResult.categories[c].solved = Cardinality(RowsOf(c))
                /\ \A i \in DOMAIN csesResult.categories[c].problems :
                      ~IsUnknown(csesResult.categories[c].problems[i])
          /\ csesResult.totalSolved = Num(Len(solvedProblems))

UnknownIdWitness ==
    /\ csesResult # None
    /\ csesResult.success
    /\ UnknownRows # {}
    /\ RowsOf("tree") # {}
    /\ csesResult.categories.tree.solved = Cardinality(RowsOf("tree"))

(***************************************************************************)
(* Properties of the sync-all merge as a function of the journey record.   *)
(***************************************************************************)
MergedFields == {"cses", "codeforces", "platforms", "lastAutoSync"}

\* C11: merging the results syncAllPlatforms returned into the journey record
\* a second time gives the same cses, codeforces, platforms and lastAutoSync
\* as merging them once.
MergeIsIdempotent ==
    pc = "all:returned" =>
        LET once == MergeAll(db, body, results)
            twice == MergeAll(once, body, results)
        IN \A f \in MergedFields : Get(twice, f) = Get(once, f)

\* The results about to be merged are the ones the record already holds from
\* the merge before.
MergedTwiceWitness ==
    /\ pc = "all:returned"
    /\ Succeeded(results.cses) /\ Succeeded(results.codeforces)
    /\ Succeeded(results.vjudge)
    /\ results.codeforces.problemsSolved = Num(2)
    /\ db.codeforces.problemsSolved = Num(2)
    /\ db.cses = results.cses.categories
    /\ Get(db, "lastAutoSync") = results.syncTime
    /\ "platforms" \in DOMAIN db
    /\ \A f \in MergedFields : MergeAll(db, body, results)[f] = db[f]

(***************************************************************************)
(* Properties of fetchCodeforcesProgress (SpecCodeforces).                 *)
(***************************************************************************)
CodeforcesSucceeded ==
    /\ resolved.codeforces # None
    /\ resolved.codeforces.success

\* The list user.status answered with, and its accepted entries.
StatusList == remote.userStatus.data.result
AcceptedAt == {i \in DOMAIN StatusList : StatusList[i].verdict = Str("OK")}
ProblemOf(submission) == <<submission.problem.contestId, submission.problem.index>>
DayOf(submission) == toDateString(submission.creationTimeSeconds * 1000)

\* The date keys of dailySolves whose list holds a record with this key.
DatesListing(dailySolves, key) ==
    {d \in DOMAIN dailySolves : \E i \in DOMAIN dailySolves[d] : dailySolves[d][i].key = key}

\* C12: in a successful result every solved problem is listed in dailySolves
\* under exactly one date, the date of its earliest accepted submission.
SolvedListedUnderFirstDateOnly ==
    CodeforcesSucceeded =>
        \A i \in AcceptedAt :
            LET same == {j \in AcceptedAt : ProblemOf(StatusList[j]) = ProblemOf(StatusList[i])}
                first == CHOOSE j \in same :
                            \A k \in same : StatusList[j].creationTimeSeconds
                                                <= StatusList[k].creationTimeSeconds
            IN DatesListing(resolved.codeforces.dailySolves.o, ProblemKey(StatusList[i]))
                   = {DayOf(StatusList[first])}

\* C13: problemsSolved is the number of distinct (contestId, index) pairs among
\* the submissions with verdict OK: a problem accepted several times counts
\* once and a submission with another verdict counts nothing.
SolvedCountsDistinctProblems ==
    CodeforcesSucceeded =>
        resolved.codeforces.problemsSolved =
            Num(Cardinality({ProblemOf(StatusList[i]) : i \in AcceptedAt}))

RepeatedAcceptedWitness ==
    /\ CodeforcesSucceeded
    /\ Len(StatusList) = 3
    /\ \E i, j \in AcceptedAt :
          i # j /\ ProblemOf(StatusList[i]) = ProblemOf(StatusList[j])
    /\ \E i \in DOMAIN StatusList : i \notin AcceptedAt
    /\ resolved.codeforces.problemsSolved = Num(1)

\* C14: dailySolves has one entry for each date with an accepted submission
\* and no other entry, and no list of it holds two records with the same key.
DailySolvesKeysUniquePerDate ==
    CodeforcesSucceeded =>
        LET dailySolves == resolved.codeforces.dailySolves.o
        IN /\ DOMAIN dailySolves = {DayOf(StatusList[i]) : i \in AcceptedAt}
           /\ \A d \in DOMAIN dailySolves :
                 \A i, j \in DOMAIN dailySolves[d] :
                     i # j => dailySolves[d][i].key # dailySolves[d][j].key

SameDayRepeatWitness ==
    /\ CodeforcesSucceeded
    /\ \E i, j \in AcceptedAt :
          /\ i # j
          /\ ProblemOf(StatusList[i]) = ProblemOf(StatusList[j])
          /\ DayOf(StatusList[i]) = DayOf(StatusList[j])
          /\ StatusList[i].creationTimeSeconds # StatusList[j].creationTimeSeconds
          /\ Len(resolved.codeforces.dailySolves.o[DayOf(StatusList[i])]) = 1
    /\ Cardinality(DOMAIN resolved.codeforces.dailySolves.o) = 2

\* C15: contests is the number of distinct contest ids that have at least one
\* submission of participant type CONTESTANT; a contest with practice or
\* virtual submissions only is not counted and none is counted twice.
ContestsCountsContestantContests ==
    CodeforcesSucceeded =>
        LET ids == {StatusList[i].contestId : i \in DOMAIN StatusList}
            entered(c) ==
                \E i \in DOMAIN StatusList :
                    /\ StatusList[i].contestId = c
                    /\ StatusList[i].author.participantType = Str("CONTESTANT")
        IN resolved.codeforces.contests = Num(Cardinality({c \in ids : entered(c)}))

VirtualContestWitness ==
    /\ CodeforcesSucceeded
    /\ Len(StatusList) = 3
    /\ \E i, j \in DOMAIN StatusList :
          /\ i # j
          /\ StatusList[i].contestId = StatusList[j].contestId
          /\ StatusList[i].author.participantType = Str("CONTESTANT")
          /\ StatusList[j].author.participantType = Str("CONTESTANT")
    /\ \E i \in DOMAIN StatusList :
          StatusList[i].author.participantType = Str("VIRTUAL")
    /\ resolved.codeforces.contests = Num(1)

(***************************************************************************)
(* Properties of fetchVJudgeProgress (SpecVJudge).                         *)
(***************************************************************************)
VJudgeSucceeded ==
    /\ resolved.vjudge # None
    /\ resolved.vjudge.success

\* What the calendar grid shows for a date: the count of the last cell of
\* that date with a positive count.
GridCount(cells, d) ==
    LET at == {i \in DOMAIN cells :
                  /\ cells[i].date = Day(d)
                  /\ parseInt(cells[i].text) # NaN
                  /\ parseInt(cells[i].text).v > 0}
    IN IF at = {} THEN 0
       ELSE parseInt(cells[CHOOSE i \in at : \A j \in at : j <= i].text).v

\* The accepted rows of the submissions page that fall on a date.
AcceptedOn(rows, d) ==
    {i \in DOMAIN rows : rows[i].status = Str("Accepted") /\ DateOfStamp(rows[i].timestamp) = d}

\* C16: dailyActivity of a successful result is what the calendar grid of the
\* profile page shows and recentSolves is the accepted rows of the
\* submissions page, date by date, whatever the other page holds; a call in
\* which only one page differs from the call before changes only that page's
\* field.
VJudgeSourcesUnreconciled ==
    /\ [](VJudgeSucceeded =>
            LET cells == remote.vjudgeUser.data.cells
                rows == remote.vjudgeSubmissions.data.rows
                dailyActivity == resolved.vjudge.dailyActivity.o
                recentSolves == resolved.vjudge.recentSolves.o
            IN /\ \A d \in 1..MaxDay :
                     IF GridCount(cells, d) > 0
                     THEN d \in DOMAIN dailyActivity /\ dailyActivity[d] = GridCount(cells, d)
                     ELSE d \notin DOMAIN dailyActivity
               /\ \A d \in (1..MaxDay) \cup {InvalidDate} :
                     IF AcceptedOn(rows, d) # {}
                     THEN /\ d \in DOMAIN recentSolves
                          /\ Len(recentSolves[d]) = Cardinality(AcceptedOn(rows, d))
                     ELSE d \notin DOMAIN recentSolves)
    /\ [][(VJudgeSucceeded /\ resolved'.vjudge.success) =>
             /\ remote'.vjudgeUser = remote.vjudgeUser =>
                    resolved'.vjudge.dailyActivity = resolved.vjudge.dailyActivity
             /\ remote'.vjudgeSubmissions = remote.vjudgeSubmissions =>
                    resolved'.vjudge.recentSolves = resolved.vjudge.recentSolves]_vars

\* The grid shows 3 for a date on which the submissions page has 2 accepted
\* rows.
SourcesDisagreeWitness ==
    /\ VJudgeSucceeded
    /\ 1 \in DOMAIN resolved.vjudge.dailyActivity.o
    /\ resolved.vjudge.dailyActivity.o[1] = 3
    /\ 1 \in DOMAIN resolved.vjudge.recentSolves.o
    /\ Len(resolved.vjudge.recentSolves.o[1]) = 2

(***************************************************************************)
(* Properties of fetchCSESTopics (SpecTopics).                             *)
(***************************************************************************)
TopicsResolved == resolved.topics # None

RequestFailed == remote.problemset.kind # "ok"

\* The page has nothing either copy can take for a topic: no element with
\* "Problems" in it and no h2 whose title has a letter.
NothingToParse ==
    /\ remote.problemset.kind = "ok"
    /\ remote.problemset.data.elements = <<>>
    /\ \A i \in DOMAIN remote.problemset.data.headings :
          ~remote.problemset.data.headings[i].title.letter

PageTexts ==
    {remote.problemset.data.headings[i].title.s : i \in DOMAIN remote.problemset.data.headings}
        \cup {remote.problemset.data.elements[i].text.s :
                 i \in DOMAIN remote.problemset.data.elements}

IsFallback(r, catalog) ==
    /\ r.topics = catalog
    /\ Len(r.topics) = 11
    /\ "fromCache" \in DOMAIN r
    /\ r.fromCache

\* What holds of both copies: success, a list that is never empty, and the
\* fallback catalog whenever the request failed or nothing could be parsed.
NeverEmpty(r, catalog) ==
    /\ r.success
    /\ r.topics # <<>>
    /\ \/ IsFallback(r, catalog)
       \/ /\ ~RequestFailed
          /\ \A i \in DOMAIN r.topics : r.topics[i].title \in PageTexts
    /\ (RequestFailed \/ NothingToParse) => IsFallback(r, catalog)

\* C17 as stated: fetchCSESTopics always returns success = true and a list
\* that is not empty; when the request fails or the page yields no topic it
\* returns the 11-entry fallback catalog with fromCache = true, and with
\* error set when the request failed.
TopicsFallbackWithError ==
    TopicsResolved =>
        /\ NeverEmpty(resolved.topics, FallbackTopics)
        /\ NeverEmpty(resolved.topicsEarlier, EarlierFallbackTopics)
        /\ RequestFailed =>
              /\ "error" \in DOMAIN resolved.topics
              /\ "error" \in DOMAIN resolved.topicsEarlier

\* C17 amended: as above, except that error is set on a failed request by
\* src/platformAPI.js only; the earlier copy returns its fallback with no
\* error field.
TopicsFallbackNeverEmpty ==
    TopicsResolved =>
        /\ NeverEmpty(resolved.topics, FallbackTopics)
        /\ NeverEmpty(resolved.topicsEarlier, EarlierFallbackTopics)
        /\ RequestFailed =>
              /\ "error" \in DOMAIN resolved.topics
              /\ resolved.topics.error = AxiosMessage(remote.problemset)
              /\ "error" \notin DOMAIN resolved.topicsEarlier
        /\ ~RequestFailed => "error" \notin DOMAIN resolved.topics

FailedRequestFallbackWitness ==
    /\ TopicsResolved
    /\ remote.problemset = Timeout
    /\ IsFallback(resolved.topics, FallbackTopics)
    /\ IsFallback(resolved.topicsEarlier, EarlierFallbackTopics)
    /\ "error" \in DOMAIN resolved.topics

(***************************************************************************)
(* Properties of the three progress fetchers (SpecResolve).                *)
(***************************************************************************)
Rejection(resp) == resp.kind # "ok"

\* The answers fetcher f got hold a timeout, a status outside 2xx, or a 2xx
\* answer that is not what the fetcher asks for.
BadAnswers(f) ==
    CASE f = "cses" ->
            Rejection(remote.csesUser) \/ ~remote.csesUser.data.profile
      [] f = "codeforces" ->
            ~CodeforcesUsable(remote.userInfo, remote.userStatus)
      [] f = "vjudge" ->
            \/ Rejection(remote.vjudgeUser)
            \/ Rejection(remote.vjudgeSubmissions)
            \/ remote.vjudgeUser.data.solved = NoText

ZeroedDefaults(f, r) ==
    CASE f = "cses" -> r.totalSolved = Num(0)
      [] f = "codeforces" -> r.problemsSolved = Num(0) /\ r.contests = Num(0)
      [] f = "vjudge" -> r.totalSolved = Num(0)

\* C18: each of fetchCSESProgress, fetchCodeforcesProgress and
\* fetchVJudgeProgress resolves, on a timeout, a status outside 2xx or an
\* unexpected payload, to an object with success = false, an error message
\* and the platform's zeroed default fields.
BadAnswersGiveFailureObject ==
    \A f \in ProgressFetchers :
        (resolved[f] # None /\ BadAnswers(f)) =>
            /\ ~resolved[f].success
            /\ "error" \in DOMAIN resolved[f]
            /\ ZeroedDefaults(f, resolved[f])

(***************************************************************************)
(* Properties of the guard of POST /api/sync/all (Spec).                   *)
(***************************************************************************)
NoUsernameGiven(usernames) == \A p \in Platforms : ~Truthy(PropertyOf(usernames, p))

\* C19: a POST /api/sync/all whose usernames hold no non-empty platform
\* username is answered 400 without a call of syncAllPlatforms, and no merge
\* for such a request changes the stored journey record.
EmptyUsernamesRejected ==
    /\ [][(pc = "idle" /\ body' \in AllBodies /\ NoUsernameGiven(body')) =>
             /\ pc' = "idle"
             /\ response'.status = 400
             /\ db' = db]_vars
    /\ [][(MergeStep /\ NoUsernameGiven(body)) => db' = db]_vars

(***************************************************************************)
(* Properties of syncs on a record that was changed by hand (SpecKeep).    *)
(***************************************************************************)
\* A per-platform sync whose fetch succeeded, or a sync-all merge, is written.
SuccessfulSyncStep ==
    \/ pc \in Platforms /\ pc' = "idle" /\ response'.data.success
    \/ MergeStep

UncoveredFields ==
    {"journeyStarted", "startDate", "currentStreak", "bestStreak", "usaco", "revision"}

\* C20: a successful per-platform sync and a sync-all merge leave
\* journeyStarted, startDate, currentStreak, bestStreak, the usaco counters
\* and revision.problems of the stored record as they were, also when they
\* were set by hand before.
SyncKeepsUncoveredFields ==
    [][SuccessfulSyncStep => \A f \in UncoveredFields : db'[f] = db[f]]_vars

\* A sync has been written onto a record whose journey was started and whose
\* usaco counter was raised by hand.
SyncAfterManualWitness ==
    /\ pc = "idle"
    /\ db.journeyStarted
    /\ db.startDate = Num(0)
    /\ db.usaco.bronze = 1
    /\ db.currentStreak = 1
    /\ "lastAutoSync" \in DOMAIN db
    /\ "codeforces" \in DOMAIN PlatformsOf(db)
    /\ db.codeforces.problemsSolved = Num(2)
    /\ db.cses.tree.solved = 1


(***************************************************************************)
(* Order of the fetch completions in syncAllPlatforms (Spec).              *)
(***************************************************************************)
CompletionOrders ==
    {o \in [1..3 -> Platforms] : \A i, j \in 1..3 : i # j => o[i] # o[j]}

\* The then-callbacks of the requested platforms run in the order o.
RECURSIVE CompletedInOrder(_, _, _)
CompletedInOrder(o, i, res) ==
    IF i > 3 THEN res
    ELSE CompletedInOrder(o, i + 1,
             IF Requested(o[i]) THEN ThenAssign(res, o[i], fetched[o[i]]) ELSE res)

\* C21: for the outcomes the platform fetches of a call resolved to, running
\* the then-callbacks in any completion order gives the cses, codeforces and
\* vjudge values the call returns; while fetches are in flight every settled
\* slot holds its own fetch's outcome and every other slot is still null.
ResultsIndependentOfCompletionOrder ==
    /\ pc = "all:returned" =>
          \A o \in CompletionOrders :
              CompletedInOrder(o, 1, NewResults(results.syncTime.v)) = results
    /\ pc = "all:fetching" =>
          \A p \in Platforms :
              results[p] = IF promises[p] = "settled" THEN fetched[p] ELSE JSNull

AllThreeDifferWitness ==
    /\ pc = "all:returned"
    /\ \A p \in Platforms : Requested(p)
    /\ Succeeded(results.cses)
    /\ Failed(results.codeforces)
    /\ Succeeded(results.vjudge)
    /\ results.cses # results.vjudge

(***************************************************************************)
(* Types of rating and maxRating (SpecCodeforces).                         *)
(***************************************************************************)
IsNumber(v) == v.t = "number"

\* C22: in every successful result of fetchCodeforcesProgress, rating is a
\* number or the string "Unrated" and maxRating is a number, also for a user
\* whose user.info entry carries no rating.
RatingTypes ==
    CodeforcesSucceeded =>
        /\ IsNumber(resolved.codeforces.rating)
              \/ resolved.codeforces.rating = Str("Unrated")
        /\ IsNumber(resolved.codeforces.maxRating)

(***************************************************************************)
(* Overlapping sync requests on one journey record (SpecOverlap).          *)
(***************************************************************************)
\* The part of the record the handler of call c assigned is what the record
\* holds: assigning it again changes nothing.
HoldsUpdateOf(journey, c) ==
    LET again == SyncMerge(calls[c].endpoint, journey, Str("u"), calls[c].fetched, today)
    IN /\ "platforms" \in DOMAIN journey
       /\ again.cses = journey.cses
       /\ again.codeforces = journey.codeforces
       /\ again.platforms = journey.platforms

SyncedAndSaved(c) == calls[c].at = "sync:answered" /\ calls[c].saved

\* C23: when two requests to different sync endpoints have both succeeded and
\* written the record, the record holds the updates of both, in whatever
\* order their reads and writes of the database were interleaved.
OverlappingSyncsBothKept ==
    \A c, d \in Callers :
        (c # d /\ SyncedAndSaved(c) /\ SyncedAndSaved(d)
              /\ calls[c].endpoint # calls[d].endpoint)
            => HoldsUpdateOf(db, c) /\ HoldsUpdateOf(db, d)

(***************************************************************************)
(* The client's VJudge sync and the record the server wrote                *)
(* (SpecClientSync).                                                       *)
(***************************************************************************)
\* C24: once the client's syncVJudge has completed after a successful sync
\* the server wrote, the journey record holds platforms.vjudge with the sync
\* time of that sync, whether the POST of the client's saveData was handled
\* before or after the GET of loadData.
VJudgeSyncDataSurvivesClientSave ==
    (calls.one.at = "vjudge:synced" /\ calls.one.saved)
        => /\ "platforms" \in DOMAIN db
           /\ "vjudge" \in DOMAIN db.platforms
           /\ db.platforms.vjudge.lastSync = calls.one.fetched.lastUpdated

(***************************************************************************)
(* Order of the solved rows (SpecFetch).                                   *)
(***************************************************************************)
MaxPermuted == 4

\* The lists with the rows of a list in another order: every permutation of
\* a short list; of a longer one the reversal and the head moved to each place.
Permuted(rows, f) == [i \in DOMAIN rows |-> rows[f[i]]]
HeadMovedTo(rows, k) ==
    [i \in DOMAIN rows |-> IF i < k THEN rows[i + 1] ELSE IF i = k THEN rows[1] ELSE rows[i]]
Reorderings(rows) ==
    IF Len(rows) <= MaxPermuted
    THEN {Permuted(rows, f) : f \in Permutations(DOMAIN rows)}
    ELSE {HeadMovedTo(rows, k) : k \in DOMAIN rows}
            \cup {[i \in DOMAIN rows |-> rows[Len(rows) + 1 - i]]}

SolvedOf(cats) == [c \in DOMAIN cats |-> cats[c].solved]

\* C25: every reordering of the solved rows gives each category the same
\* solved value, and that value is the number of rows whose id the static
\* table puts into the category.
CountersIndependentOfRowOrder ==
    (csesResult # None /\ csesResult.success) =>
        /\ \A other \in Reorderings(solvedProblems) :
              SolvedOf(fetchCSESProgress(other, TRUE, clock).categories)
                  = SolvedOf(csesResult.categories)
        /\ \A c \in DOMAIN csesResult.categories :
              csesResult.categories[c].solved =
                  Cardinality({i \in DOMAIN solvedProblems :
                      categorizeCSESProblem(solvedProblems[i].id, getCSESCategories)
                          = Str(c)})

MixedCategoriesWitness ==
    /\ csesResult # None /\ csesResult.success
    /\ Len(solvedProblems) > MaxPermuted
    /\ Cardinality({c \in DOMAIN csesResult.categories :
                       csesResult.categories[c].solved > 0}) = 2
    /\ \E other \in Reorderings(solvedProblems) : other # solvedProblems

(***************************************************************************)
(* Overlapping calls of syncAllPlatforms (SpecCalls).                      *)
(***************************************************************************)
InCall(c) == calls[c].at \in {"all:fetching", "all:returned"}
CallRequested(c, p) == Truthy(PropertyOf(calls[c].usernames, p))

\* C26: the results object of each call holds, in every slot, null or the
\* outcome of the fetch that call started for the slot, and at its return
\* the outcome of each fetch it started, whatever the other call does
\* meanwhile; a successful outcome that names a user names the call's own.
EachCallHasOwnResults ==
    \A c \in Callers :
        InCall(c) =>
            \A p \in Platforms :
                /\ calls[c].results[p] =
                      IF calls[c].promises[p] = "settled" THEN calls[c].fetched[p]
                      ELSE JSNull
                /\ (calls[c].at = "all:returned" /\ CallRequested(c, p))
                      => calls[c].results[p] # JSNull
                /\ (calls[c].results[p] # JSNull
                        /\ "username" \in DOMAIN calls[c].results[p])
                      => calls[c].results[p].username = UsernameOf[c]

OverlappedCallsWitness ==
    /\ calls.one.at = "all:returned"
    /\ calls.other.at = "all:fetching"
    /\ Succeeded(calls.one.results.codeforces)
    /\ Succeeded(calls.other.results.codeforces)
    /\ calls.other.promises.cses = "pending"
    /\ calls.one.results.cses # JSNull

(***************************************************************************)
(* The two requests of fetchCodeforcesProgress and fetchVJudgeProgress     *)
(* (SpecRequests).                                                         *)
(***************************************************************************)
InFetch(c) == calls[c].at \in {"fetch:second", "fetch:resolved"}

\* The request got a 2xx answer and, for Codeforces, the API said OK.
RequestSucceeded(f, resp) ==
    /\ resp.kind = "ok"
    /\ f = "codeforces" => Get(resp.data, "status") = Str("OK")

FailureShape(f) ==
    IF f = "codeforces"
    THEN [success |-> FALSE, error |-> Str("request failed"), rating |-> Str("Error"),
          problemsSolved |-> Num(0), contests |-> Num(0)]
    ELSE [success |-> FALSE, error |-> Str("request failed"), totalSolved |-> Num(0)]

\* C27: the second request of fetchCodeforcesProgress and fetchVJudgeProgress
\* is on the wire only after the first succeeded, and when the second fails
\* (or Codeforces answers a status other than OK) the fetcher resolves to
\* its failure object, with success = false and nothing of what the first
\* answer held.
TwoRequestsAllOrNothing ==
    \A c \in Callers :
        InFetch(c) =>
            /\ Len(calls[c].requests) = 2
                  => RequestSucceeded(calls[c].fetcher, calls[c].first)
            /\ (calls[c].at = "fetch:resolved" /\ Len(calls[c].requests) = 2
                    /\ ~RequestSucceeded(calls[c].fetcher, calls[c].second))
                  => calls[c].result = FailureShape(calls[c].fetcher)

SecondRequestFailedWitness ==
    \E c \in Callers :
        /\ calls[c].at = "fetch:resolved"
        /\ calls[c].fetcher = "codeforces"
        /\ Len(calls[c].requests) = 2
        /\ Get(calls[c].first.data.result[1], "rating") = Num(1500)
        /\ calls[c].second = ApiFailed
        /\ ~calls[c].result.success

(***************************************************************************)
(* registerUser calls that may overlap (SpecRegister).                     *)
(***************************************************************************)
Registered(c) == calls[c].at = "register:returned" /\ calls[c].result.success

\* C28: no two stored users share a username or an email, the user of every
\* call that returned success is in the store, and a call that returned
\* without success stored nothing of its own.
RegisteredUsersUniqueAndKept ==
    /\ \A i, j \in DOMAIN users :
          i # j => /\ users[i].username # users[j].username
                   /\ users[i].email # users[j].email
    /\ \A c \in Callers :
          Registered(c) => \E i \in DOMAIN users : users[i] = calls[c].result.user

(***************************************************************************)
(* The streak counters (SpecStreak).                                       *)
(***************************************************************************)
\* The day lastActiveDate names, when it names one.
ActiveDay == data.lastActiveDate.day

\* C29: once updateStreak has run, bestStreak >= currentStreak >= 1; and in
\* every state reached by such calls the next call changes nothing on the
\* day of lastActiveDate, raises currentStreak by exactly 1 on the day after
\* it, and after a longer gap sets currentStreak to 1 and leaves bestStreak
\* as high as it was.
StreakLaws ==
    LET next == updateStreak(data, today)
    IN /\ data.lastActiveDate = JSNull => next.currentStreak = 1 /\ next.bestStreak >= 1
       /\ data.lastActiveDate # JSNull =>
             /\ data.bestStreak >= data.currentStreak
             /\ data.currentStreak >= 1
             /\ ActiveDay = today => next = data
             /\ ActiveDay = today - 1 =>
                   /\ next.currentStreak = data.currentStreak + 1
                   /\ next.bestStreak >= next.currentStreak
             /\ ActiveDay < today - 1 =>
                   /\ next.currentStreak = 1
                   /\ next.bestStreak >= data.bestStreak

StreakBrokenWitness ==
    /\ data.lastActiveDate = Day(today)
    /\ today = MaxStreakDay
    /\ data.currentStreak = 1
    /\ data.bestStreak = 2
    /\ data.usaco.bronze = 0

(***************************************************************************)
(* fetchWithRetry (SpecRetryFair).                                         *)
(***************************************************************************)
InRetry(c) == calls[c].at \in {"retry:requesting", "retry:returned", "retry:thrown"}
LastSettled(c) == calls[c].settled[Len(calls[c].settled)]
IsOkResponse(s) == s.kind = "response" /\ s.ok
IsRetried(s) == s.kind = "rejected" /\ s.name \in {"NetworkError", "TypeError"}

RetryBounds(c) ==
    InRetry(c) =>
        /\ calls[c].sent <= calls[c].given + 1
        /\ calls[c].given = apiRetryCount => calls[c].sent <= 4
        /\ Len(calls[c].settled) =
              IF calls[c].at = "retry:requesting" THEN calls[c].sent - 1 ELSE calls[c].sent
        \* every settlement that was followed by another request was retryable
        /\ \A i \in 1..(calls[c].sent - 1) : IsRetried(calls[c].settled[i])
        /\ calls[c].at = "retry:returned" => IsOkResponse(LastSettled(c))
        /\ calls[c].at = "retry:thrown" =>
              /\ ~IsOkResponse(LastSettled(c))
              /\ IsRetried(LastSettled(c)) => calls[c].sent = calls[c].given + 1

\* C30: every call of fetchWithRetry ends, returning or throwing; it sends
\* at most retries + 1 requests (4 with the default of 3), sends another
\* request only after an error named NetworkError or TypeError, returns the
\* first ok response, never retries a response that is not ok, and throws
\* the last retryable error only when the retries are used up.
RetryTerminatesWithinBudget ==
    /\ [](\A c \in Callers : RetryBounds(c))
    /\ \A c \in Callers :
          (calls[c].at = "retry:requesting")
              ~> (calls[c].at \in {"retry:returned", "retry:thrown"})

RetriesUsedUpWitness ==
    \E c \in Callers :
        /\ calls[c].at = "retry:thrown"
        /\ calls[c].given = apiRetryCount
        /\ calls[c].sent = 4
        /\ LastSettled(c) = [kind |-> "rejected", name |-> "TypeError"]

====
